---------------------------- MODULE Spec2Model ----------------------------
(***************************************************************************)
(* Tabular Q-learning self-play for N x N tic-tac-toe                      *)
(* (src/ia-game-learning): the game environment AmbienteJogoDaVelha, the   *)
(* agent AgenteQLearning and the trainer Treinador.                        *)
(*                                                                         *)
(* Numbers that are floating point in the source (Q values, rewards,       *)
(* alpha, gamma, epsilon) are exact rationals <<numerator, denominator>>   *)
(* here.  Math.random() draws k / NumSorteios, k in 0..NumSorteios-1.      *)
(***************************************************************************)
EXTENDS Integers, Sequences, FiniteSets, TLC

VARIABLES
    \* --- AmbienteJogoDaVelha ---
    dimensao,               \* this.dimensao
    combinacoesDeVitoria,   \* this.combinacoesDeVitoria (sequence of sequences)
    tabuleiro,              \* this.tabuleiro, a function 0..N*N-1 -> 0..2
    jogadorAtual,           \* this.jogadorAtual
    partidaFinalizada,      \* this.partidaFinalizada
    vencedor,               \* this.vencedor (NULO, 0 = draw, 1, 2)
    pcConstrutor,           \* position inside the constructor
    indice,                 \* loop variable of #gerarCombinacoesDeVitoria
    \* --- the last call made on the modelled objects ---
    chamada,                \* [op, acao]: the operation and its argument
    erro,                   \* "" or the error the call raised
    retorno,                \* what the call returned
    \* --- AgenteQLearning, one per symbol "X" and "O" ---
    hiper,                  \* [alpha, gamma, epsilonMinimo, taxaDecaimentoEpsilon]
    epsilon,                \* this.epsilon
    tabelaQ,                \* this.tabelaQ: estado -> (acao -> valor)
    estatisticas,           \* [partidasTreinadas, vitorias, derrotas, empates]
    historicoPartida,       \* this.historicoPartida: sequence of <<estado, acao>>
    passos,                 \* number of calls made so far
    \* --- Treinador ---
    pcTreinador,            \* position inside executarUmaPartida
    partidasExecutadas,     \* number of calls of executarUmaPartida that returned
    aprendizados,           \* the calls of aprenderComFimDePartida made by the
                            \* last executarUmaPartida: [agente, recompensa]
    testTreinador,          \* this.test_treinador
    checkpoints,            \* this.#checkpoints: sequence of [numeroPartida, sucesso]
    pcTreino,               \* position inside treinar
    treino,                 \* the arguments and locals of the current treinar
    \* --- the models directory on disk ---
    arquivos,               \* file name -> what the file holds
    escritasDeCheckpoint,   \* the file names #salvarCheckpoint has written, in order
    pcAvaliacao,            \* where avaliarAgentes is: "ocioso", "laco"
    avaliacao               \* the argument and the locals of avaliarAgentes

varsAmbiente == <<dimensao, combinacoesDeVitoria, tabuleiro, jogadorAtual,
                  partidaFinalizada, vencedor, pcConstrutor, indice>>
varsChamada  == <<chamada, erro, retorno>>
varsAgente   == <<hiper, epsilon, tabelaQ, estatisticas, historicoPartida, passos>>
varsTreinador == <<pcTreinador, partidasExecutadas, aprendizados>>
varsTreino == <<testTreinador, checkpoints, pcTreino, treino>>
varsDisco == <<arquivos, escritasDeCheckpoint>>
varsAvaliacao == <<pcAvaliacao, avaliacao>>
vars == <<varsAmbiente, varsChamada, varsAgente, varsTreinador, varsTreino, varsAvaliacao, varsDisco>>

-----------------------------------------------------------------------------
(* Bounds and program constants *)

\* Math.random() is drawn from the grid {k / NumSorteios : k \in 0..NumSorteios-1}
NumSorteios == 2

\* null / undefined (this.vencedor = null)
NULO == -1

\* constructor(dimensao = 3)
DimensaoPadrao == 3
\* if (dimensao < 3 || dimensao > 9) throw
DimensaoMinima == 3
DimensaoMaxima == 9

Sorteios == 0 .. (NumSorteios - 1)

Range(s) == {s[k] : k \in DOMAIN s}

-----------------------------------------------------------------------------
(* Exact rational arithmetic for the floating point values of the source *)

RECURSIVE MDC(_, _)
MDC(a, b) == IF b = 0 THEN a ELSE MDC(b, a % b)

Abs(x) == IF x < 0 THEN -x ELSE x

\* the rational n / d in lowest terms with a positive denominator
Rac(n, d) ==
    LET s == IF d < 0 THEN -1 ELSE 1
        g == MDC(Abs(n), Abs(d))
    IN  <<(s * n) \div g, (s * d) \div g>>

Zero == <<0, 1>>
Um   == <<1, 1>>

\* sums go through the least common denominator, so that intermediate
\* values stay small
Soma(x, y) ==
    LET g == MDC(x[2], y[2])
    IN  Rac(x[1] * (y[2] \div g) + y[1] * (x[2] \div g), (x[2] \div g) * y[2])
Menos(x, y) == Soma(x, <<-y[1], y[2]>>)
Vezes(x, y) == Rac(x[1] * y[1], x[2] * y[2])
\* comparisons too, the denominators being positive
Menor(x, y) ==
    LET g == MDC(x[2], y[2])
    IN  x[1] * (y[2] \div g) < y[1] * (x[2] \div g)
Maior(x, y) == Menor(y, x)

-----------------------------------------------------------------------------
(* AgenteQLearning: construction *)

Agentes == {"X", "O"}

\* constructor defaults: alpha = 0.5, gamma = 1.0, epsilon = 1.0,
\* epsilonMinimo = 0.001, taxaDecaimentoEpsilon = 0.99999
HiperPadrao ==
    [alpha |-> <<1, 2>>, gamma |-> <<1, 1>>,
     epsilonMinimo |-> <<1, 1000>>, taxaDecaimentoEpsilon |-> <<99999, 100000>>]
EpsilonPadrao == <<1, 1>>

\* this.tabelaQ = {}
TabelaVazia == << >>

EstatisticasZeradas ==
    [partidasTreinadas |-> 0, vitorias |-> 0, derrotas |-> 0, empates |-> 0]

\* two agents as new AgenteQLearning({ jogador }) leaves them
AgentesNovos ==
    /\ hiper = [ag \in Agentes |-> HiperPadrao]
    /\ epsilon = [ag \in Agentes |-> EpsilonPadrao]
    /\ tabelaQ = [ag \in Agentes |-> TabelaVazia]
    /\ estatisticas = [ag \in Agentes |-> EstatisticasZeradas]
    /\ historicoPartida = [ag \in Agentes |-> << >>]
    /\ passos = 0

-----------------------------------------------------------------------------
(* Treinador: construction *)

\* new Treinador(agenteX, agenteO, ambiente): no match has been run
TreinadorNovo ==
    /\ pcTreinador = "ocioso"
    /\ partidasExecutadas = 0
    /\ aprendizados = << >>

\* no file in the models directory
DiscoVazio == << >>

\* treinar has not been called: #checkpoints = [], nothing written
SemTreino ==
    /\ checkpoints = << >>
    /\ pcTreino = "ocioso"
    /\ treino = [numeroDePartidas |-> 0, intervaloLog |-> 1,
                 intervaloCheckpoint |-> 1, partidaAtual |-> 0,
                 vitoriasXJanela |-> 0, vitoriasOJanela |-> 0,
                 empatesJanela |-> 0, partidasAntes |-> [ag \in Agentes |-> 0]]
    /\ arquivos = DiscoVazio
    /\ escritasDeCheckpoint = << >>

\* no avaliarAgentes call yet
SemAvaliacao ==
    /\ pcAvaliacao = "ocioso"
    /\ avaliacao = [numeroDePartidas |-> 0, i |-> 0, vitoriasX |-> 0,
                    vitoriasO |-> 0, empates |-> 0,
                    tabelasAntes |-> [ag \in Agentes |-> TabelaVazia]]

-----------------------------------------------------------------------------
(* AmbienteJogoDaVelha: construction *)

\* linha.push(i + j) for j = 0..dimensao-1
Linha(i, n) == [j \in 1..n |-> i + (j - 1)]

\* coluna.push(i + j * dimensao)
Coluna(i, n) == [j \in 1..n |-> i + (j - 1) * n]

\* diagonalPrincipal.push(i * (dimensao + 1)), i = 0..dimensao-1
DiagonalPrincipal(n) == [k \in 1..n |-> (k - 1) * (n + 1)]

\* a slip that starts the anti-diagonal at i instead of i + 1
DiagonalSecundariaDeslocada(n) == [k \in 1..n |-> (k - 1) * (n - 1)]

\* diagonalSecundaria.push((i + 1) * (dimensao - 1)), i = 0..dimensao-1
DiagonalSecundaria(n) == [k \in 1..n |-> k * (n - 1)]

\* The whole of #gerarCombinacoesDeVitoria as one value
GerarCombinacoesDeVitoria(n) ==
    [k \in 1..n |-> Linha((k - 1) * n, n)]
        \o [k \in 1..n |-> Coluna(k - 1, n)]
        \o <<DiagonalPrincipal(n)>>
        \o <<DiagonalSecundaria(n)>>

TabuleiroVazio(n) == [c \in 0 .. (n * n - 1) |-> 0]

\* Math.random() < 0.5 ? 1 : 2, with Math.random() = k / NumSorteios
SortearJogadorFixo(k) == 1
SortearJogador(k) == IF 2 * k < NumSorteios THEN 1 ELSE 2

SemChamada == [op |-> "", acao |-> NULO]

\* new AmbienteJogoDaVelha(d): the range check and the first assignments
ConstrutorInicio ==
    /\ pcConstrutor = "inicio"
    /\ IF dimensao < DimensaoMinima \/ dimensao > DimensaoMaxima
         THEN /\ pcConstrutor' = "falhou"
              /\ erro' = "DimensaoInvalida"
         ELSE /\ pcConstrutor' = "linhas"
              /\ erro' = ""
    /\ indice' = 0
    /\ chamada' = [op |-> "constructor", acao |-> dimensao]
    /\ UNCHANGED <<dimensao, combinacoesDeVitoria, tabuleiro, jogadorAtual,
                   partidaFinalizada, vencedor, retorno, varsAgente, varsTreinador,
                   varsTreino, varsAvaliacao, varsDisco>>

\* for (let i = 0; i < numeroDeCasas; i += dimensao) combinacoes.push(linha)
ConstrutorLinhas ==
    /\ pcConstrutor = "linhas"
    /\ IF indice < dimensao * dimensao
         THEN /\ combinacoesDeVitoria' =
                     Append(combinacoesDeVitoria, Linha(indice, dimensao))
              /\ indice' = indice + dimensao
              /\ UNCHANGED pcConstrutor
         ELSE /\ pcConstrutor' = "colunas"
              /\ indice' = 0
              /\ UNCHANGED combinacoesDeVitoria
    /\ UNCHANGED <<dimensao, tabuleiro, jogadorAtual, partidaFinalizada,
                   vencedor, varsChamada, varsAgente, varsTreinador,
                   varsTreino, varsAvaliacao, varsDisco>>

\* for (let i = 0; i < dimensao; i++) combinacoes.push(coluna)
ConstrutorColunas ==
    /\ pcConstrutor = "colunas"
    /\ IF indice < dimensao
         THEN /\ combinacoesDeVitoria' =
                     Append(combinacoesDeVitoria, Coluna(indice, dimensao))
              /\ indice' = indice + 1
              /\ UNCHANGED pcConstrutor
         ELSE /\ pcConstrutor' = "diagonais"
              /\ indice' = 0
              /\ UNCHANGED combinacoesDeVitoria
    /\ UNCHANGED <<dimensao, tabuleiro, jogadorAtual, partidaFinalizada,
                   vencedor, varsChamada, varsAgente, varsTreinador,
                   varsTreino, varsAvaliacao, varsDisco>>

\* the two diagonals, then return combinacoes
ConstrutorDiagonais ==
    /\ pcConstrutor = "diagonais"
    /\ combinacoesDeVitoria' =
           combinacoesDeVitoria \o <<DiagonalPrincipal(dimensao)>>
                                \o <<DiagonalSecundaria(dimensao)>>
    /\ pcConstrutor' = "reiniciar"
    /\ UNCHANGED <<dimensao, indice, tabuleiro, jogadorAtual, partidaFinalizada,
                   vencedor, varsChamada, varsAgente, varsTreinador,
                   varsTreino, varsAvaliacao, varsDisco>>

\* this.reiniciarPartida() at the end of the constructor
ConstrutorReiniciar ==
    /\ pcConstrutor = "reiniciar"
    /\ \E k \in Sorteios :
          jogadorAtual' = SortearJogador(k)
    /\ tabuleiro' = TabuleiroVazio(dimensao)
    /\ partidaFinalizada' = FALSE
    /\ vencedor' = NULO
    /\ pcConstrutor' = "construido"
    /\ UNCHANGED <<dimensao, combinacoesDeVitoria, indice, varsChamada, varsAgente, varsTreinador,
                   varsTreino, varsAvaliacao, varsDisco>>

InitConstrutor ==
    /\ dimensao \in (DimensaoMinima - 1) .. (DimensaoMaxima + 1)
    /\ combinacoesDeVitoria = << >>
    /\ tabuleiro = << >>
    /\ jogadorAtual = NULO
    /\ partidaFinalizada = FALSE
    /\ vencedor = NULO
    /\ pcConstrutor = "inicio"
    /\ indice = 0
    /\ chamada = SemChamada
    /\ erro = ""
    /\ retorno = << >>
    /\ AgentesNovos
    /\ TreinadorNovo
    /\ testTreinador = FALSE
    /\ SemTreino
    /\ SemAvaliacao

NextConstrutor ==
    \/ ConstrutorInicio
    \/ ConstrutorLinhas
    \/ ConstrutorColunas
    \/ ConstrutorDiagonais
    \/ ConstrutorReiniciar

SpecConstrutor == InitConstrutor /\ [][NextConstrutor]_vars

-----------------------------------------------------------------------------
(* AmbienteJogoDaVelha: operations *)

\* this.tabuleiro[acao]; undefined (NULO) outside the board
ValorDaCasa(t, acao) == IF acao \in DOMAIN t THEN t[acao] ELSE NULO

\* a slip that reports the occupied cells instead of the empty ones
ObterAcoesOcupadas(t) ==
    LET n == Cardinality(DOMAIN t)
        mapeado == [k \in 1..n |-> IF t[k - 1] # 0 THEN k - 1 ELSE NULO]
    IN  SelectSeq(mapeado, LAMBDA x : x # NULO)

\* a slip that offers every cell of the board, the occupied ones too
ObterAcoesDeTodasAsCasas(t) ==
    [k \in 1 .. Cardinality(DOMAIN t) |-> k - 1]

\* tabuleiro.map((valor, indice) => valor === 0 ? indice : null)
\*          .filter(indice => indice !== null)
ObterAcoesValidas(t) ==
    LET n == Cardinality(DOMAIN t)
        mapeado == [k \in 1..n |-> IF t[k - 1] = 0 THEN k - 1 ELSE NULO]
    IN  SelectSeq(mapeado, LAMBDA x : x # NULO)

RECURSIVE JuntarCasas(_, _)
JuntarCasas(t, k) ==
    IF k = 0 THEN ToString(t[0])
    ELSE JuntarCasas(t, k - 1) \o "," \o ToString(t[k])

\* JSON.stringify(this.tabuleiro): "[0,1,2,...]"
ObterEstadoComoTupla(t) ==
    IF DOMAIN t = {} THEN "[]"
    ELSE "[" \o JuntarCasas(t, Cardinality(DOMAIN t) - 1) \o "]"

\* a slip that overlooks the last combination, the secondary diagonal
VerificarVitoriaSemUltima(t, combinacoes, jogador) ==
    \E k \in DOMAIN combinacoes \ {Len(combinacoes)} :
        \A j \in DOMAIN combinacoes[k] : t[combinacoes[k][j]] = jogador

\* combinacoesDeVitoria.some(c => c.every(casa => tabuleiro[casa] === jogador))
VerificarVitoria(t, combinacoes, jogador) ==
    \E k \in DOMAIN combinacoes :
        \A j \in DOMAIN combinacoes[k] : t[combinacoes[k][j]] = jogador

\* a slip that leaves the turn with the player who moved
TrocarJogadorNunca(jogador) == jogador

\* this.jogadorAtual === 1 ? 2 : 1
TrocarJogador(jogador) == IF jogador = 1 THEN 2 ELSE 1

\* a slip that tests the full board before the win
DesfechoEmpatePrimeiro(t, combinacoes, jogador) ==
    IF Len(ObterAcoesValidas(t)) = 0
      THEN [finalizada |-> TRUE, vencedor |-> 0, recompensa |-> Zero]
    ELSE IF VerificarVitoria(t, combinacoes, jogador)
      THEN [finalizada |-> TRUE, vencedor |-> jogador, recompensa |-> Um]
    ELSE [finalizada |-> FALSE, vencedor |-> NULO, recompensa |-> Zero]

\* a slip that names player 1 the winner of every match that is won
DesfechoVenceOPrimeiro(t, combinacoes, jogador) ==
    IF VerificarVitoria(t, combinacoes, jogador)
      THEN [finalizada |-> TRUE, vencedor |-> 1, recompensa |-> Um]
    ELSE IF Len(ObterAcoesValidas(t)) = 0
      THEN [finalizada |-> TRUE, vencedor |-> 0, recompensa |-> Zero]
    ELSE [finalizada |-> FALSE, vencedor |-> NULO, recompensa |-> Zero]

\* a slip that does not end the match on a full board
DesfechoSemEmpate(t, combinacoes, jogador) ==
    IF VerificarVitoria(t, combinacoes, jogador)
      THEN [finalizada |-> TRUE, vencedor |-> jogador, recompensa |-> Um]
    ELSE [finalizada |-> FALSE, vencedor |-> NULO, recompensa |-> Zero]

\* The termination check of executarJogada on the board t just written by
\* jogador: win first, then draw (vencedor = 0), else the game goes on and
\* the flags keep the values reiniciarPartida gave them.
Desfecho(t, combinacoes, jogador) ==
    IF VerificarVitoria(t, combinacoes, jogador)
      THEN [finalizada |-> TRUE, vencedor |-> jogador, recompensa |-> Um]
    ELSE IF Len(ObterAcoesValidas(t)) = 0
      THEN [finalizada |-> TRUE, vencedor |-> 0, recompensa |-> Zero]
    ELSE [finalizada |-> FALSE, vencedor |-> NULO, recompensa |-> Zero]

\* a slip that leaves out the occupied-cell test
JogadaRejeitadaSoFinalizada(t, finalizada, acao) ==
    ValorDaCasa(t, acao) \notin {0, 1, 2} \/ finalizada

\* a slip that leaves out the finished-game test
JogadaRejeitadaSoOcupada(t, finalizada, acao) == ValorDaCasa(t, acao) # 0

\* the two guards of executarJogada:
\*   if (this.tabuleiro[acao] !== 0) throw ...; if (this.partidaFinalizada) throw ...
JogadaRejeitada(t, finalizada, acao) ==
    ValorDaCasa(t, acao) # 0 \/ finalizada

\* the actions a caller may pass: every cell, and one index outside the board
AcoesDeEntrada == 0 .. (dimensao * dimensao)

executarJogada(acao) ==
    /\ pcConstrutor = "construido"
    /\ chamada' = [op |-> "executarJogada", acao |-> acao]
    /\ IF JogadaRejeitada(tabuleiro, partidaFinalizada, acao)
         THEN /\ erro' = "InvalidAction"
              /\ retorno' = << >>
              /\ UNCHANGED <<tabuleiro, jogadorAtual, partidaFinalizada, vencedor>>
         ELSE LET t == [tabuleiro EXCEPT ![acao] = jogadorAtual]
                  d == Desfecho(t, combinacoesDeVitoria, jogadorAtual)
              IN  /\ tabuleiro' = t
                  /\ partidaFinalizada' = d.finalizada
                  /\ vencedor' = d.vencedor
                  /\ jogadorAtual' = TrocarJogador(jogadorAtual)
                  /\ erro' = ""
                  /\ retorno' = [estado |-> t, recompensa |-> d.recompensa,
                                 finalizada |-> d.finalizada]
    /\ UNCHANGED <<dimensao, combinacoesDeVitoria, pcConstrutor, indice, varsAgente, varsTreinador,
                   varsTreino, varsAvaliacao, varsDisco>>

reiniciarPartida ==
    /\ pcConstrutor = "construido"
    /\ tabuleiro' = TabuleiroVazio(dimensao)
    /\ \E k \in Sorteios : jogadorAtual' = SortearJogador(k)
    /\ partidaFinalizada' = FALSE
    /\ vencedor' = NULO
    /\ chamada' = [op |-> "reiniciarPartida", acao |-> NULO]
    /\ erro' = ""
    /\ retorno' = tabuleiro'
    /\ UNCHANGED <<dimensao, combinacoesDeVitoria, pcConstrutor, indice, varsAgente, varsTreinador,
                   varsTreino, varsAvaliacao, varsDisco>>

obterAcoesValidas ==
    /\ pcConstrutor = "construido"
    /\ chamada' = [op |-> "obterAcoesValidas", acao |-> NULO]
    /\ erro' = ""
    /\ retorno' = ObterAcoesValidas(tabuleiro)
    /\ UNCHANGED <<varsAmbiente, varsAgente, varsTreinador,
                   varsTreino, varsAvaliacao, varsDisco>>

\* The environment as new AmbienteJogoDaVelha() leaves it
InitAmbiente ==
    /\ dimensao = DimensaoPadrao
    /\ combinacoesDeVitoria = GerarCombinacoesDeVitoria(DimensaoPadrao)
    /\ tabuleiro = TabuleiroVazio(DimensaoPadrao)
    /\ \E k \in Sorteios : jogadorAtual = SortearJogador(k)
    /\ partidaFinalizada = FALSE
    /\ vencedor = NULO
    /\ pcConstrutor = "construido"
    /\ indice = 0
    /\ chamada = [op |-> "constructor", acao |-> DimensaoPadrao]
    /\ erro = ""
    /\ retorno = << >>
    /\ AgentesNovos
    /\ TreinadorNovo
    /\ testTreinador = FALSE
    /\ SemTreino
    /\ SemAvaliacao

NextAmbiente ==
    \/ reiniciarPartida
    \/ obterAcoesValidas
    \/ \E acao \in AcoesDeEntrada : executarJogada(acao)

SpecAmbiente == InitAmbiente /\ [][NextAmbiente]_vars

-----------------------------------------------------------------------------
(* AgenteQLearning: operations on a Q table q *)

\* a slip that answers 0.0 for an unseen pair without storing it
ObterValorQSemGravar(q, estado, acao) ==
    [tabela |-> q,
     valor |-> IF estado \in DOMAIN q /\ acao \in DOMAIN q[estado]
                 THEN q[estado][acao] ELSE Zero]

\* obterValorQ: creates the state and the action entry (0.0) when missing;
\* gives the table afterwards and the value read
ObterValorQ(q, estado, acao) ==
    LET q1 == IF estado \in DOMAIN q THEN q ELSE q @@ (estado :> << >>)
        q2 == IF acao \in DOMAIN q1[estado] THEN q1
              ELSE [q1 EXCEPT ![estado] = @ @@ (acao :> Zero)]
    IN  [tabela |-> q2, valor |-> q2[estado][acao]]

\* Math.max(...valores)
MaximoRac(valores) == CHOOSE x \in valores : \A y \in valores : ~Menor(x, y)

\* #obterMelhorValorQDoEstado
ObterMelhorValorQDoEstado(q, estado) ==
    IF estado \notin DOMAIN q \/ DOMAIN q[estado] = {} THEN Zero
    ELSE MaximoRac(Range(q[estado]))

\* a slip that adds the future value also to a terminal update
AprenderSemTerminal(q, alpha, gamma, estado, acao, recompensa, proximoEstado, finalizado) ==
    LET lido == ObterValorQ(q, estado, acao)
        opiniaoAntiga == lido.valor
        melhorValorFuturo == ObterMelhorValorQDoEstado(lido.tabela, proximoEstado)
        valorRealDaJogada == Soma(recompensa, Vezes(gamma, melhorValorFuturo))
        surpresa == Menos(valorRealDaJogada, opiniaoAntiga)
        novoValorQ == Soma(opiniaoAntiga, Vezes(alpha, surpresa))
    IN  [lido.tabela EXCEPT ![estado][acao] = novoValorQ]

\* a slip that leaves the discount factor out of the target
AprenderSemGamma(q, alpha, gamma, estado, acao, recompensa, proximoEstado, finalizado) ==
    LET lido == ObterValorQ(q, estado, acao)
        opiniaoAntiga == lido.valor
        melhorValorFuturo ==
            IF finalizado THEN Zero
            ELSE ObterMelhorValorQDoEstado(lido.tabela, proximoEstado)
        valorRealDaJogada == Soma(recompensa, melhorValorFuturo)
        surpresa == Menos(valorRealDaJogada, opiniaoAntiga)
        novoValorQ == Soma(opiniaoAntiga, Vezes(alpha, surpresa))
    IN  [lido.tabela EXCEPT ![estado][acao] = novoValorQ]

\* a slip that keeps only the state it updates
AprenderEsquecendo(q, alpha, gamma, estado, acao, recompensa, proximoEstado, finalizado) ==
    LET lido == ObterValorQ(q, estado, acao)
        opiniaoAntiga == lido.valor
        melhorValorFuturo ==
            IF finalizado THEN Zero
            ELSE ObterMelhorValorQDoEstado(lido.tabela, proximoEstado)
        valorRealDaJogada == Soma(recompensa, Vezes(gamma, melhorValorFuturo))
        surpresa == Menos(valorRealDaJogada, opiniaoAntiga)
        novoValorQ == Soma(opiniaoAntiga, Vezes(alpha, surpresa))
    IN  (estado :> [lido.tabela[estado] EXCEPT ![acao] = novoValorQ])

\* a slip that adds alpha * target to the old value without taking the old
\* value off the target
AprenderAcumulando(q, alpha, gamma, estado, acao, recompensa, proximoEstado, finalizado) ==
    LET lido == ObterValorQ(q, estado, acao)
        opiniaoAntiga == lido.valor
        melhorValorFuturo ==
            IF finalizado THEN Zero
            ELSE ObterMelhorValorQDoEstado(lido.tabela, proximoEstado)
        valorRealDaJogada == Soma(recompensa, Vezes(gamma, melhorValorFuturo))
        novoValorQ == Soma(opiniaoAntiga, Vezes(alpha, valorRealDaJogada))
    IN  [lido.tabela EXCEPT ![estado][acao] = novoValorQ]

\* aprender: the table after the update
Aprender(q, alpha, gamma, estado, acao, recompensa, proximoEstado, finalizado) ==
    LET lido == ObterValorQ(q, estado, acao)
        opiniaoAntiga == lido.valor
        melhorValorFuturo ==
            IF finalizado THEN Zero
            ELSE ObterMelhorValorQDoEstado(lido.tabela, proximoEstado)
        valorRealDaJogada == Soma(recompensa, Vezes(gamma, melhorValorFuturo))
        surpresa == Menos(valorRealDaJogada, opiniaoAntiga)
        novoValorQ == Soma(opiniaoAntiga, Vezes(alpha, surpresa))
    IN  [lido.tabela EXCEPT ![estado][acao] = novoValorQ]

\* for (const acao of acoesValidas) valoresQDasAcoes[acao] = this.obterValorQ(estado, acao)
\* the table after the reads of acoes[i..]
RECURSIVE LerValoresQ(_, _, _, _)
LerValoresQ(q, estado, acoes, i) ==
    IF i > Len(acoes) THEN q
    ELSE LerValoresQ(ObterValorQ(q, estado, acoes[i]).tabela, estado, acoes, i + 1)

\* the keys of an object with integer keys come in ascending order
RECURSIVE EmOrdemCrescente(_)
EmOrdemCrescente(S) ==
    IF S = {} THEN << >>
    ELSE LET m == CHOOSE x \in S : \A y \in S : x <= y
         IN  <<m>> \o EmOrdemCrescente(S \ {m})

\* Math.floor(Math.random() * n), Math.random() = k / NumSorteios; 1-based
IndiceSorteado(k, n) == ((k * n) \div NumSorteios) + 1

\* a slip that takes the first of the actions whatever their values
EscolherPrimeiraAcao(q, estado, acoes, k) ==
    [tabela |-> LerValoresQ(q, estado, acoes, 1), acao |-> acoes[1]]

\* a slip that breaks a tie by taking the lowest of the best actions
EscolherMenorDasMelhores(q, estado, acoes, k) ==
    LET q1 == LerValoresQ(q, estado, acoes, 1)
        valorMaximoQ == MaximoRac({q1[estado][a] : a \in Range(acoes)})
        melhoresAcoes ==
            EmOrdemCrescente({a \in Range(acoes) : q1[estado][a] = valorMaximoQ})
    IN  [tabela |-> q1, acao |-> melhoresAcoes[1]]

\* #escolherMelhorAcao: the table after the reads, and the action chosen
EscolherMelhorAcao(q, estado, acoes, k) ==
    LET q1 == LerValoresQ(q, estado, acoes, 1)
        valorMaximoQ == MaximoRac({q1[estado][a] : a \in Range(acoes)})
        melhoresAcoes ==
            EmOrdemCrescente({a \in Range(acoes) : q1[estado][a] = valorMaximoQ})
    IN  [tabela |-> q1,
         acao |-> melhoresAcoes[IndiceSorteado(k, Len(melhoresAcoes))]]

\* Math.random() < this.epsilon
SorteioMenorQue(k, eps) == k * eps[2] < eps[1] * NumSorteios

\* !acoesValidas || acoesValidas.length === 0
SemAcoesValidas(lista) == ~lista.definida \/ Len(lista.itens) = 0

\* a slip that returns nothing, without an error, when there is no action
EscolherAcaoSemErro(q, eps, estado, lista, emTreinamento, k1, k2) ==
    IF SemAcoesValidas(lista)
      THEN [tabela |-> q, acao |-> NULO, erro |-> ""]
    ELSE IF ~emTreinamento
      THEN EscolherMelhorAcao(q, estado, lista.itens, k2) @@ [erro |-> ""]
    ELSE IF SorteioMenorQue(k1, eps)
      THEN [tabela |-> q,
            acao |-> lista.itens[IndiceSorteado(k2, Len(lista.itens))],
            erro |-> ""]
    ELSE EscolherMelhorAcao(q, estado, lista.itens, k2) @@ [erro |-> ""]

\* escolherAcao: [tabela, acao, erro]; k1 is the draw compared with epsilon,
\* k2 the draw that picks the index
EscolherAcao(q, eps, estado, lista, emTreinamento, k1, k2) ==
    IF SemAcoesValidas(lista)
      THEN [tabela |-> q, acao |-> NULO, erro |-> "NoValidActions"]
    ELSE IF ~emTreinamento
      THEN EscolherMelhorAcao(q, estado, lista.itens, k2) @@ [erro |-> ""]
    ELSE IF SorteioMenorQue(k1, eps)
      THEN [tabela |-> q,
            acao |-> lista.itens[IndiceSorteado(k2, Len(lista.itens))],
            erro |-> ""]
    ELSE EscolherMelhorAcao(q, estado, lista.itens, k2) @@ [erro |-> ""]

\* a slip that lets epsilon decay below its floor
ReduzirEpsilonSemPiso(eps, h) == Vezes(eps, h.taxaDecaimentoEpsilon)

\* a slip that divides epsilon by the decay factor instead of multiplying
ReduzirEpsilonDividindo(eps, h) ==
    LET crescido == Vezes(eps, <<h.taxaDecaimentoEpsilon[2], h.taxaDecaimentoEpsilon[1]>>)
    IN  IF Menor(crescido, h.epsilonMinimo) THEN h.epsilonMinimo ELSE crescido

\* Math.max(this.epsilonMinimo, this.epsilon * this.taxaDecaimentoEpsilon)
ReduzirEpsilon(eps, h) ==
    LET decaido == Vezes(eps, h.taxaDecaimentoEpsilon)
    IN  IF Menor(decaido, h.epsilonMinimo) THEN h.epsilonMinimo ELSE decaido

\* a slip that gives every entry the undiscounted reward
RECURSIVE PropagarSemDesconto(_, _, _, _, _)
PropagarSemDesconto(q, h, historico, i, recompensa) ==
    IF i < 1 THEN q
    ELSE PropagarSemDesconto(
             Aprender(q, h.alpha, h.gamma, historico[i][1], historico[i][2],
                      recompensa, historico[i][1], TRUE),
             h, historico, i - 1, recompensa)

\* the loop of aprenderComFimDePartida from entry i down to the first
RECURSIVE PropagarRecompensa(_, _, _, _, _)
PropagarRecompensa(q, h, historico, i, recompensa) ==
    IF i < 1 THEN q
    ELSE PropagarRecompensa(
             Aprender(q, h.alpha, h.gamma, historico[i][1], historico[i][2],
                      recompensa, historico[i][1], TRUE),
             h, historico, i - 1, Vezes(recompensa, h.gamma))

\* a slip that counts a drawn match as a win
ContarEmpateComoVitoria(e, recompensaFinal) ==
    [partidasTreinadas |-> e.partidasTreinadas + 1,
     vitorias |-> e.vitorias + (IF ~Menor(recompensaFinal, Zero) THEN 1 ELSE 0),
     derrotas |-> e.derrotas + (IF Menor(recompensaFinal, Zero) THEN 1 ELSE 0),
     empates |-> e.empates]

\* the counters of aprenderComFimDePartida
ContarPartida(e, recompensaFinal) ==
    [partidasTreinadas |-> e.partidasTreinadas + 1,
     vitorias |-> e.vitorias + (IF Maior(recompensaFinal, Zero) THEN 1 ELSE 0),
     derrotas |-> e.derrotas + (IF ~Maior(recompensaFinal, Zero)
                                   /\ Menor(recompensaFinal, Zero) THEN 1 ELSE 0),
     empates |-> e.empates + (IF ~Maior(recompensaFinal, Zero)
                                 /\ ~Menor(recompensaFinal, Zero) THEN 1 ELSE 0)]

-----------------------------------------------------------------------------
(* AgenteQLearning: the operations as calls on agent ag *)

\* Bound: the number of calls in one behaviour of SpecAgente
MaxPassos == 2

ChamadaDoAgente(op, ag, estado, acao, recompensa, proximoEstado, finalizado, lista, emTreinamento) ==
    [op |-> op, agente |-> ag, estado |-> estado, acao |-> acao,
     recompensa |-> recompensa, proximoEstado |-> proximoEstado,
     finalizado |-> finalizado, acoesValidas |-> lista,
     emTreinamento |-> emTreinamento]

SemLista == [definida |-> FALSE, itens |-> << >>]

obterValorQ(ag, estado, acao) ==
    LET lido == ObterValorQ(tabelaQ[ag], estado, acao)
    IN  /\ tabelaQ' = [tabelaQ EXCEPT ![ag] = lido.tabela]
        /\ retorno' = lido.valor
        /\ erro' = ""
        /\ chamada' = ChamadaDoAgente("obterValorQ", ag, estado, acao, Zero, "",
                                      FALSE, SemLista, FALSE)
        /\ UNCHANGED <<hiper, epsilon, estatisticas, historicoPartida>>

aprender(ag, estado, acao, recompensa, proximoEstado, finalizado) ==
    /\ tabelaQ' = [tabelaQ EXCEPT ![ag] =
                      Aprender(tabelaQ[ag], hiper[ag].alpha, hiper[ag].gamma, estado, acao,
                               recompensa, proximoEstado, finalizado)]
    /\ retorno' = << >>
    /\ erro' = ""
    /\ chamada' = ChamadaDoAgente("aprender", ag, estado, acao, recompensa,
                                  proximoEstado, finalizado, SemLista, FALSE)
    /\ UNCHANGED <<hiper, epsilon, estatisticas, historicoPartida>>

escolherAcao(ag, estado, lista, emTreinamento) ==
    /\ \E e \in {EscolherAcao(tabelaQ[ag], epsilon[ag], estado, lista,
                               emTreinamento, k1, k2) : k1, k2 \in Sorteios} :
          /\ tabelaQ' = [tabelaQ EXCEPT ![ag] = e.tabela]
          /\ retorno' = e.acao
          /\ erro' = e.erro
    /\ chamada' = ChamadaDoAgente("escolherAcao", ag, estado, NULO, Zero, "",
                                  FALSE, lista, emTreinamento)
    /\ UNCHANGED <<hiper, epsilon, estatisticas, historicoPartida>>

iniciarNovaPartida(ag) ==
    /\ historicoPartida' = [historicoPartida EXCEPT ![ag] = << >>]
    /\ retorno' = << >>
    /\ erro' = ""
    /\ chamada' = ChamadaDoAgente("iniciarNovaPartida", ag, "", NULO, Zero, "",
                                  FALSE, SemLista, FALSE)
    /\ UNCHANGED <<hiper, epsilon, tabelaQ, estatisticas>>

registrarJogada(ag, estado, acao) ==
    /\ historicoPartida' = [historicoPartida EXCEPT ![ag] = Append(@, <<estado, acao>>)]
    /\ retorno' = << >>
    /\ erro' = ""
    /\ chamada' = ChamadaDoAgente("registrarJogada", ag, estado, acao, Zero, "",
                                  FALSE, SemLista, FALSE)
    /\ UNCHANGED <<hiper, epsilon, tabelaQ, estatisticas>>

aprenderComFimDePartida(ag, recompensaFinal) ==
    /\ estatisticas' = [estatisticas EXCEPT ![ag] = ContarPartida(@, recompensaFinal)]
    /\ tabelaQ' = [tabelaQ EXCEPT ![ag] =
                      PropagarRecompensa(tabelaQ[ag], hiper[ag], historicoPartida[ag],
                                         Len(historicoPartida[ag]), recompensaFinal)]
    /\ epsilon' = [epsilon EXCEPT ![ag] = ReduzirEpsilon(@, hiper[ag])]
    /\ retorno' = << >>
    /\ erro' = ""
    /\ chamada' = ChamadaDoAgente("aprenderComFimDePartida", ag, "", NULO,
                                  recompensaFinal, "", FALSE, SemLista, FALSE)
    /\ UNCHANGED <<hiper, historicoPartida>>

-----------------------------------------------------------------------------
(* One agent driven by any caller *)

EstadoVazio  == ObterEstadoComoTupla(TabuleiroVazio(DimensaoPadrao))
EstadoCentro == ObterEstadoComoTupla([TabuleiroVazio(DimensaoPadrao) EXCEPT ![4] = 1])
EstadosDeEntrada == {EstadoVazio, EstadoCentro}
AcoesDoAgente == {0, 1}
RecompensasDeEntrada == {Zero, Um}
RecompensasFinais == {<<-1, 1>>, Zero, Um}
ListasDeAcoes ==
    {SemLista,
     [definida |-> TRUE, itens |-> << >>],
     [definida |-> TRUE, itens |-> <<1>>],
     [definida |-> TRUE, itens |-> <<0, 1>>]}

\* a table as a saved model or a test leaves it: the next state of the
\* update test holds { 0: 0.5, 1: 0.8, 2: 0.3 }, the empty board a centre
\* opening that went badly
TabelaCarregada ==
    (EstadoCentro :> ((0 :> <<1, 2>>) @@ (1 :> <<4, 5>>) @@ (2 :> <<3, 10>>)))
        @@ (EstadoVazio :> (4 :> <<-1, 4>>))

\* hyperparameters a caller passes to the constructor: the default alpha
\* and gamma, and the alpha = 0.5, gamma = 0.9 of the update test; the
\* epsilon floor and decay are short fractions so that repeated decay stays
\* representable
HiperCurto == [HiperPadrao EXCEPT !.epsilonMinimo = <<1, 10>>,
                                  !.taxaDecaimentoEpsilon = <<1, 2>>]
HiperDeTeste == [HiperCurto EXCEPT !.gamma = <<9, 10>>]
EpsilonsIniciais == {Zero, <<1, 2>>, Um}

InitAgente ==
    /\ hiper \in {[ag \in Agentes |-> IF ag = "X" THEN h ELSE HiperPadrao] :
                     h \in {HiperCurto, HiperDeTeste}}
    /\ epsilon \in {[ag \in Agentes |-> IF ag = "X" THEN e ELSE EpsilonPadrao] :
                     e \in EpsilonsIniciais}
    /\ tabelaQ \in {[ag \in Agentes |-> IF ag = "X" THEN q ELSE TabelaVazia] :
                     q \in {TabelaVazia, TabelaCarregada}}
    /\ estatisticas = [ag \in Agentes |-> EstatisticasZeradas]
    /\ historicoPartida = [ag \in Agentes |-> << >>]
    /\ passos = 0
    /\ TreinadorNovo
    /\ testTreinador = FALSE
    /\ SemTreino
    /\ SemAvaliacao
    /\ dimensao = DimensaoPadrao
    /\ combinacoesDeVitoria = GerarCombinacoesDeVitoria(DimensaoPadrao)
    /\ tabuleiro = TabuleiroVazio(DimensaoPadrao)
    /\ jogadorAtual = 1
    /\ partidaFinalizada = FALSE
    /\ vencedor = NULO
    /\ pcConstrutor = "construido"
    /\ indice = 0
    /\ chamada = SemChamada
    /\ erro = ""
    /\ retorno = << >>

Passo == /\ passos < MaxPassos
         /\ passos' = passos + 1
         /\ UNCHANGED <<varsAmbiente, varsTreinador, varsTreino, varsAvaliacao, varsDisco>>

AgObterValorQ ==
    /\ Passo
    /\ \E e \in EstadosDeEntrada, a \in AcoesDoAgente : obterValorQ("X", e, a)

AgAprender ==
    /\ Passo
    /\ \E e, prox \in EstadosDeEntrada, a \in AcoesDoAgente,
          r \in RecompensasDeEntrada, fim \in BOOLEAN :
           aprender("X", e, a, r, prox, fim)

AgEscolherAcao ==
    /\ Passo
    /\ \E e \in EstadosDeEntrada, l \in ListasDeAcoes, t \in BOOLEAN :
           escolherAcao("X", e, l, t)

AgIniciarNovaPartida == Passo /\ iniciarNovaPartida("X")

AgRegistrarJogada ==
    /\ Passo
    /\ \E e \in EstadosDeEntrada, a \in AcoesDoAgente : registrarJogada("X", e, a)

AgAprenderComFimDePartida ==
    /\ Passo
    /\ \E r \in RecompensasFinais : aprenderComFimDePartida("X", r)

NextAgente ==
    \/ AgObterValorQ
    \/ AgAprender
    \/ AgEscolherAcao
    \/ AgIniciarNovaPartida
    \/ AgRegistrarJogada
    \/ AgAprenderComFimDePartida

SpecAgente == InitAgente /\ [][NextAgente]_vars

\* the agent read, taught and asked for actions: the calls that fill the
\* table the greedy choice reads
NextEscolha ==
    \/ AgObterValorQ
    \/ AgAprender
    \/ AgEscolherAcao

SpecEscolha == InitAgente /\ [][NextEscolha]_vars

-----------------------------------------------------------------------------
(* Treinador: executarUmaPartida, one step per loop iteration *)

\* Bound: the number of matches in one behaviour of SpecTreinador
MaxPartidas == 1

\* a slip that hands every turn to agenteX
AgenteDaVezSempreX(jogador) == "X"

\* this.ambiente.jogadorAtual === 1 ? this.agenteX : this.agenteO
AgenteDaVez(jogador) == IF jogador = 1 THEN "X" ELSE "O"

\* a slip that gives the loser nothing instead of -1.0
RecompensasSemDerrota(v) ==
    IF v = 1 THEN [X |-> Um, O |-> Zero]
    ELSE IF v = 2 THEN [X |-> Zero, O |-> Um]
    ELSE [X |-> Zero, O |-> Zero]

\* a slip that rewards both agents of a decided match with +1.0
RecompensasSemPerdedor(v) ==
    IF v \in {1, 2} THEN [X |-> Um, O |-> Um]
    ELSE [X |-> Zero, O |-> Zero]

\* recompensaX and recompensaO for this.ambiente.vencedor
RecompensasDaPartida(v) ==
    IF v = 1 THEN [X |-> Um, O |-> <<-1, 1>>]
    ELSE IF v = 2 THEN [X |-> <<-1, 1>>, O |-> Um]
    ELSE [X |-> Zero, O |-> Zero]

ChamadaDoTreinador == [op |-> "executarUmaPartida", acao |-> NULO]

\* executarUmaPartida up to its loop: reiniciarPartida and iniciarNovaPartida
\* of both agents
ExecutarPartidaInicio ==
    /\ pcTreinador = "ocioso"
    /\ tabuleiro' = TabuleiroVazio(dimensao)
    /\ \E k \in Sorteios : jogadorAtual' = SortearJogador(k)
    /\ partidaFinalizada' = FALSE
    /\ vencedor' = NULO
    /\ historicoPartida' = [ag \in Agentes |-> << >>]
    /\ aprendizados' = << >>
    /\ pcTreinador' = "laco"
    /\ chamada' = ChamadaDoTreinador
    /\ erro' = ""
    /\ retorno' = << >>
    /\ UNCHANGED <<dimensao, combinacoesDeVitoria, pcConstrutor, indice, hiper,
                   epsilon, tabelaQ, estatisticas, passos, partidasExecutadas>>

\* one iteration of while (!this.ambiente.partidaFinalizada): escolherAcao in
\* training mode, registrarJogada, executarJogada; an error of either call
\* ends executarUmaPartida; the draws of Math.random() come from sorteios
ExecutarPartidaJogada(sorteios) ==
    /\ pcTreinador = "laco"
    /\ ~partidaFinalizada
    /\ LET ag == AgenteDaVez(jogadorAtual)
           estadoAtual == ObterEstadoComoTupla(tabuleiro)
           acoesValidas == [definida |-> TRUE, itens |-> ObterAcoesValidas(tabuleiro)]
       IN  \E e \in {EscolherAcao(tabelaQ[ag], epsilon[ag], estadoAtual,
                                  acoesValidas, TRUE, k1, k2) : k1, k2 \in sorteios} :
             /\ tabelaQ' = [tabelaQ EXCEPT ![ag] = e.tabela]
             /\ IF e.erro # ""
                  THEN /\ erro' = e.erro
                       /\ pcTreinador' = "falhou"
                       /\ UNCHANGED <<historicoPartida, tabuleiro, jogadorAtual,
                                      partidaFinalizada, vencedor>>
                ELSE IF JogadaRejeitada(tabuleiro, partidaFinalizada, e.acao)
                  THEN /\ erro' = "InvalidAction"
                       /\ pcTreinador' = "falhou"
                       /\ historicoPartida' =
                              [historicoPartida EXCEPT ![ag] = Append(@, <<estadoAtual, e.acao>>)]
                       /\ UNCHANGED <<tabuleiro, jogadorAtual, partidaFinalizada, vencedor>>
                ELSE LET t == [tabuleiro EXCEPT ![e.acao] = jogadorAtual]
                         d == Desfecho(t, combinacoesDeVitoria, jogadorAtual)
                     IN  /\ erro' = ""
                         /\ pcTreinador' = "laco"
                         /\ historicoPartida' =
                                [historicoPartida EXCEPT ![ag] = Append(@, <<estadoAtual, e.acao>>)]
                         /\ tabuleiro' = t
                         /\ partidaFinalizada' = d.finalizada
                         /\ vencedor' = d.vencedor
                         /\ jogadorAtual' = TrocarJogador(jogadorAtual)
    /\ chamada' = ChamadaDoTreinador
    /\ retorno' = << >>
    /\ UNCHANGED <<dimensao, combinacoesDeVitoria, pcConstrutor, indice, hiper,
                   epsilon, estatisticas, passos, partidasExecutadas, aprendizados>>

\* after the loop: the rewards, aprenderComFimDePartida of agenteX and then
\* of agenteO, return this.ambiente.vencedor
ExecutarPartidaFim ==
    /\ pcTreinador = "laco"
    /\ partidaFinalizada
    /\ LET r == RecompensasDaPartida(vencedor)
       IN  /\ estatisticas' = [ag \in Agentes |-> ContarPartida(estatisticas[ag], r[ag])]
           /\ tabelaQ' = [ag \in Agentes |->
                             PropagarRecompensa(tabelaQ[ag], hiper[ag], historicoPartida[ag],
                                                Len(historicoPartida[ag]), r[ag])]
           /\ epsilon' = [ag \in Agentes |-> ReduzirEpsilon(epsilon[ag], hiper[ag])]
           /\ aprendizados' = <<[agente |-> "X", recompensa |-> r.X],
                                [agente |-> "O", recompensa |-> r.O]>>
    /\ partidasExecutadas' = partidasExecutadas + 1
    /\ pcTreinador' = "ocioso"
    /\ UNCHANGED <<varsAmbiente, hiper, historicoPartida, passos>>

\* executarUmaPartida called on its own, step by step
partidaInicio ==
    /\ partidasExecutadas < MaxPartidas
    /\ ExecutarPartidaInicio
    /\ UNCHANGED <<varsTreino, varsAvaliacao, varsDisco>>

partidaJogada ==
    /\ ExecutarPartidaJogada(Sorteios)
    /\ UNCHANGED <<varsTreino, varsAvaliacao, varsDisco>>

partidaFim ==
    /\ ExecutarPartidaFim
    /\ chamada' = ChamadaDoTreinador
    /\ erro' = ""
    /\ retorno' = vencedor
    /\ UNCHANGED <<varsTreino, varsAvaliacao, varsDisco>>

\* new Treinador(new AgenteQLearning({ jogador: 1, ... }),
\*               new AgenteQLearning({ jogador: 2, ... }),
\*               new AmbienteJogoDaVelha(3)): the agents start with empty tables,
\* agenteO with the default epsilon, agenteX with the default or with 0.5
InitTreinador ==
    /\ dimensao = DimensaoPadrao
    /\ combinacoesDeVitoria = GerarCombinacoesDeVitoria(DimensaoPadrao)
    /\ tabuleiro = TabuleiroVazio(DimensaoPadrao)
    /\ \E k \in Sorteios : jogadorAtual = SortearJogador(k)
    /\ partidaFinalizada = FALSE
    /\ vencedor = NULO
    /\ pcConstrutor = "construido"
    /\ indice = 0
    /\ chamada = SemChamada
    /\ erro = ""
    /\ retorno = << >>
    /\ hiper = [ag \in Agentes |-> HiperCurto]
    /\ epsilon \in {[ag \in Agentes |-> IF ag = "X" THEN e ELSE EpsilonPadrao] :
                       e \in {EpsilonPadrao, <<1, 2>>}}
    /\ tabelaQ = [ag \in Agentes |-> TabelaVazia]
    /\ estatisticas = [ag \in Agentes |-> EstatisticasZeradas]
    /\ historicoPartida = [ag \in Agentes |-> << >>]
    /\ passos = 0
    /\ TreinadorNovo
    /\ testTreinador = FALSE
    /\ SemTreino
    /\ SemAvaliacao

NextTreinador ==
    \/ partidaInicio
    \/ partidaJogada
    \/ partidaFim

SpecTreinador == InitTreinador /\ [][NextTreinador]_vars

\* while (!this.ambiente.partidaFinalizada) is entered, and left
NoLacoDaPartida == pcTreinador = "laco" /\ ~partidaFinalizada
AposOLacoDaPartida == pcTreinador = "laco" /\ partidaFinalizada

\* executarUmaPartida is synchronous: once called, its loop and its tail run
\* to the return without waiting for anything. This is weak fairness of
\* partidaJogada and of partidaFim, WF_v(A) == []<>~ENABLED <<A>>_v \/
\* []<><<A>>_v, with ENABLED written as the condition of the loop under which
\* each of the two has a step
SpecTreinadorJusto ==
    /\ SpecTreinador
    /\ []<>~NoLacoDaPartida \/ []<><<partidaJogada>>_<<tabuleiro, pcTreinador>>
    /\ []<>~AposOLacoDaPartida \/ []<><<partidaFim>>_pcTreinador

-----------------------------------------------------------------------------
(* Files of the models directory: JSON.stringify, fs.writeFileSync *)

\* the keys of a JavaScript object are strings: action 4 is the key "4"
ChaveDeAcao(acao) == ToString(acao)
AcaoDaChave(chave) ==
    CHOOSE a \in 0 .. (DimensaoMaxima * DimensaoMaxima - 1) : ToString(a) = chave

\* JSON.stringify(this.tabelaQ, null, 2): the text of a file, as the object
\* a parser reads from it
JsonDaTabela(q) ==
    [valido |-> TRUE,
     objeto |->
        [e \in DOMAIN q |->
            [k \in {ChaveDeAcao(a) : a \in DOMAIN q[e]} |-> q[e][AcaoDaChave(k)]]]]

\* a text JSON.parse rejects with a SyntaxError
TextoInvalido == [valido |-> FALSE, objeto |-> << >>]

\* the object JSON.parse gives for the text of a table, as a table: the
\* key "4" of a state is the entry of action 4
\* a key that is the string of an action number
ChaveNumerica(chave) ==
    \E a \in 0 .. (DimensaoMaxima * DimensaoMaxima - 1) : ToString(a) = chave

\* an entry whose keys are not action numbers stays the object it is
TabelaDoJson(objeto) ==
    [e \in DOMAIN objeto |->
        IF \A k \in DOMAIN objeto[e] : ChaveNumerica(k)
          THEN [a \in {AcaoDaChave(k) : k \in DOMAIN objeto[e]} |->
                   objeto[e][ChaveDeAcao(a)]]
          ELSE objeto[e]]

\* the text of an older save: the table nested under a field of a wrapper
\* object
JsonEmbrulhado(campo, q) ==
    [valido |-> TRUE, objeto |-> (campo :> JsonDaTabela(q).objeto)]

\* a slip that takes a file that is not JSON for a missing one
CarregarTolerante(disco, nome) ==
    IF nome \notin DOMAIN disco \/ ~disco[nome].valido
      THEN [erro |-> "", tabela |-> TabelaVazia]
    ELSE [erro |-> "", tabela |-> TabelaDoJson(disco[nome].objeto)]

\* a slip that returns a new agent without reading the file
CarregarSemLer(disco, nome) == [erro |-> "", tabela |-> TabelaVazia]

\* AgenteQLearning.carregar(caminho, kwargs): the table of the agent it
\* returns, or the error JSON.parse throws
Carregar(disco, nome) ==
    IF nome \notin DOMAIN disco
      THEN [erro |-> "", tabela |-> TabelaVazia]
    ELSE IF ~disco[nome].valido
      THEN [erro |-> "SyntaxError", tabela |-> TabelaVazia]
    ELSE [erro |-> "", tabela |-> TabelaDoJson(disco[nome].objeto)]

\* fs.writeFileSync(nome, texto): creates the file or replaces what it held
Escrever(disco, nome, texto) ==
    [n \in DOMAIN disco \cup {nome} |-> IF n = nome THEN texto ELSE disco[n]]

\* which of the two writes of a save throws: none, agenteX's or agenteO's
FalhasDeEscrita == {"", "x", "o"}

-----------------------------------------------------------------------------
(* Treinador: treinar, #salvarCheckpoint, #salvarModelosFinais *)

\* Bound: the matches treinar plays in one behaviour of SpecTreino, over all
\* its calls
MaxPartidasTreinadas == 2

\* agente_x_checkpoint_${numeroPartida}.json
NomeDoCheckpoint(simbolo, numeroPartida) ==
    "agente_" \o simbolo \o "_checkpoint_" \o ToString(numeroPartida) \o ".json"

\* agente_x_final_${dimensao}x${dimensao}.json
NomeDoModeloFinal(simbolo, dim) ==
    "agente_" \o simbolo \o "_final_" \o ToString(dim) \o "x" \o ToString(dim) \o ".json"

\* a slip that lets the failed write end treinar
SalvarCheckpointSemCaptura(disco, escritas, cps, q, numeroPartida, falha) ==
    LET caminhoX == NomeDoCheckpoint("x", numeroPartida)
        caminhoO == NomeDoCheckpoint("o", numeroPartida)
        d1 == IF falha = "x" THEN disco
              ELSE Escrever(disco, caminhoX, JsonDaTabela(q["X"]))
        d2 == IF falha # "" THEN d1
              ELSE Escrever(d1, caminhoO, JsonDaTabela(q["O"]))
        e1 == IF falha = "x" THEN escritas ELSE Append(escritas, caminhoX)
        e2 == IF falha # "" THEN e1 ELSE Append(e1, caminhoO)
    IN  [arquivos |-> d2, escritas |-> e2,
         checkpoints |-> IF falha = "" THEN Append(cps, [numeroPartida |-> numeroPartida,
                                                        sucesso |-> TRUE])
                         ELSE cps,
         erro |-> IF falha = "" THEN "" ELSE "EscritaFalhou"]

\* a slip that records every checkpoint as a success
SalvarCheckpointOtimista(disco, escritas, cps, q, numeroPartida, falha) ==
    LET caminhoX == NomeDoCheckpoint("x", numeroPartida)
        caminhoO == NomeDoCheckpoint("o", numeroPartida)
        d1 == IF falha = "x" THEN disco
              ELSE Escrever(disco, caminhoX, JsonDaTabela(q["X"]))
        d2 == IF falha # "" THEN d1
              ELSE Escrever(d1, caminhoO, JsonDaTabela(q["O"]))
        e1 == IF falha = "x" THEN escritas ELSE Append(escritas, caminhoX)
        e2 == IF falha # "" THEN e1 ELSE Append(e1, caminhoO)
    IN  [arquivos |-> d2, escritas |-> e2,
         checkpoints |-> Append(cps, [numeroPartida |-> numeroPartida,
                                      sucesso |-> TRUE]),
         erro |-> ""]

\* #salvarCheckpoint: writes agenteX's table, then agenteO's, and records the
\* checkpoint; a write that throws is caught and recorded as a failure
SalvarCheckpoint(disco, escritas, cps, q, numeroPartida, falha) ==
    LET caminhoX == NomeDoCheckpoint("x", numeroPartida)
        caminhoO == NomeDoCheckpoint("o", numeroPartida)
        d1 == IF falha = "x" THEN disco
              ELSE Escrever(disco, caminhoX, JsonDaTabela(q["X"]))
        d2 == IF falha # "" THEN d1
              ELSE Escrever(d1, caminhoO, JsonDaTabela(q["O"]))
        e1 == IF falha = "x" THEN escritas ELSE Append(escritas, caminhoX)
        e2 == IF falha # "" THEN e1 ELSE Append(e1, caminhoO)
    IN  [arquivos |-> d2, escritas |-> e2,
         checkpoints |-> Append(cps, [numeroPartida |-> numeroPartida,
                                      sucesso |-> (falha = "")]),
         erro |-> ""]

\* a slip that saves agenteX's final model only
SalvarModelosFinaisSoX(disco, q, dim, falha) ==
    LET caminhoX == NomeDoModeloFinal("x", dim)
        d1 == IF falha = "x" THEN disco
              ELSE Escrever(disco, caminhoX, JsonDaTabela(q["X"]))
    IN  [arquivos |-> d1,
         erro |-> IF falha = "x" THEN "ErroAoSalvarMemoria" ELSE ""]

\* #salvarModelosFinais: salvarMemoria of agenteX, then of agenteO; an error
\* of either is thrown on
SalvarModelosFinais(disco, q, dim, falha) ==
    LET caminhoX == NomeDoModeloFinal("x", dim)
        caminhoO == NomeDoModeloFinal("o", dim)
        d1 == IF falha = "x" THEN disco
              ELSE Escrever(disco, caminhoX, JsonDaTabela(q["X"]))
        d2 == IF falha # "" THEN d1
              ELSE Escrever(d1, caminhoO, JsonDaTabela(q["O"]))
    IN  [arquivos |-> d2,
         erro |-> IF falha = "" THEN "" ELSE "ErroAoSalvarMemoria"]

\* a slip in the loop test that lets one more match through
ContinuaTreinoAteIgual(partidaAtual, numeroDePartidas) ==
    partidaAtual <= numeroDePartidas

\* partidaAtual < numeroDePartidas
ContinuaTreino(partidaAtual, numeroDePartidas) == partidaAtual < numeroDePartidas

\* (partidaAtual + 1) % intervalo === 0
NoIntervalo(partidas, intervalo) == partidas % intervalo = 0

ChamadaDeTreinar == [op |-> "treinar", acao |-> NULO]

\* the arguments treinar is called with
IntervalosDeLog == {1, 2}
IntervalosDeCheckpoint == {1, 2}

\* the draws of Math.random() the agents make during the matches of treinar:
\* the lowest one; the starter of each match is drawn from all of Sorteios
SorteiosDoTreino == {0}

\* treinar up to its loop: the counters of the window, this.#checkpoints = []
treinarInicio ==
    /\ pcTreino = "ocioso"
    /\ pcTreinador = "ocioso"
    /\ \E n \in 0 .. (MaxPartidasTreinadas - partidasExecutadas),
          iLog \in IntervalosDeLog, iCp \in IntervalosDeCheckpoint :
         treino' = [numeroDePartidas |-> n, intervaloLog |-> iLog,
                    intervaloCheckpoint |-> iCp, partidaAtual |-> 0,
                    vitoriasXJanela |-> 0, vitoriasOJanela |-> 0,
                    empatesJanela |-> 0,
                    partidasAntes |-> [ag \in Agentes |->
                                          estatisticas[ag].partidasTreinadas]]
    /\ checkpoints' = << >>
    /\ pcTreino' = "laco"
    /\ chamada' = ChamadaDeTreinar
    /\ erro' = ""
    /\ retorno' = << >>
    /\ UNCHANGED <<varsAmbiente, varsAgente, varsTreinador, testTreinador,
                   varsAvaliacao, varsDisco>>

\* the loop test and the first part of this.executarUmaPartida()
treinarPartidaInicio ==
    /\ pcTreino = "laco"
    /\ ContinuaTreino(treino.partidaAtual, treino.numeroDePartidas)
    /\ ExecutarPartidaInicio
    /\ UNCHANGED <<varsTreino, varsAvaliacao, varsDisco>>

\* one move of the match being played
treinarPartidaJogada ==
    /\ pcTreino = "laco"
    /\ ExecutarPartidaJogada(SorteiosDoTreino)
    /\ UNCHANGED <<varsTreino, varsAvaliacao, varsDisco>>

\* the end of the match and the rest of the iteration: the counters of the
\* window, their reset every intervaloLog matches, the checkpoint every
\* intervaloCheckpoint matches, partidaAtual++
treinarPartidaFim ==
    /\ pcTreino = "laco"
    /\ ExecutarPartidaFim
    /\ LET jogadas == treino.partidaAtual + 1
           vX == treino.vitoriasXJanela + (IF vencedor = 1 THEN 1 ELSE 0)
           vO == treino.vitoriasOJanela + (IF vencedor = 2 THEN 1 ELSE 0)
           em == treino.empatesJanela + (IF vencedor \notin {1, 2} THEN 1 ELSE 0)
           zera == NoIntervalo(jogadas, treino.intervaloLog)
       IN  /\ IF NoIntervalo(jogadas, treino.intervaloCheckpoint)
                THEN \E falha \in FalhasDeEscrita :
                       LET r == SalvarCheckpoint(arquivos, escritasDeCheckpoint,
                                                 checkpoints, tabelaQ', jogadas, falha)
                       IN  /\ arquivos' = r.arquivos
                           /\ escritasDeCheckpoint' = r.escritas
                           /\ checkpoints' = r.checkpoints
                           /\ erro' = r.erro
                           /\ pcTreino' = IF r.erro = "" THEN "laco" ELSE "ocioso"
                ELSE /\ erro' = ""
                     /\ pcTreino' = "laco"
                     /\ UNCHANGED <<arquivos, escritasDeCheckpoint, checkpoints>>
           /\ treino' = [treino EXCEPT !.partidaAtual = jogadas,
                                       !.vitoriasXJanela = IF zera THEN 0 ELSE vX,
                                       !.vitoriasOJanela = IF zera THEN 0 ELSE vO,
                                       !.empatesJanela = IF zera THEN 0 ELSE em]
    /\ chamada' = ChamadaDeTreinar
    /\ retorno' = << >>
    /\ UNCHANGED <<testTreinador, varsAvaliacao>>

\* after the loop: if (!this.test_treinador) this.#salvarModelosFinais()
treinarFim ==
    /\ pcTreino = "laco"
    /\ pcTreinador = "ocioso"
    /\ ~ContinuaTreino(treino.partidaAtual, treino.numeroDePartidas)
    /\ IF testTreinador
         THEN /\ erro' = ""
              /\ UNCHANGED arquivos
         ELSE \E falha \in FalhasDeEscrita :
                LET r == SalvarModelosFinais(arquivos, tabelaQ, dimensao, falha)
                IN  /\ arquivos' = r.arquivos
                    /\ erro' = r.erro
    /\ pcTreino' = "ocioso"
    /\ chamada' = ChamadaDeTreinar
    /\ retorno' = << >>
    /\ UNCHANGED <<varsAmbiente, varsAgente, varsTreinador, testTreinador,
                   checkpoints, treino, escritasDeCheckpoint, varsAvaliacao>>

\* new Treinador(agenteX, agenteO, ambiente, test_treinador) with two new
\* agents and a 3x3 board, the models directory empty
InitTreino ==
    /\ dimensao = DimensaoPadrao
    /\ combinacoesDeVitoria = GerarCombinacoesDeVitoria(DimensaoPadrao)
    /\ tabuleiro = TabuleiroVazio(DimensaoPadrao)
    /\ \E k \in Sorteios : jogadorAtual = SortearJogador(k)
    /\ partidaFinalizada = FALSE
    /\ vencedor = NULO
    /\ pcConstrutor = "construido"
    /\ indice = 0
    /\ chamada = SemChamada
    /\ erro = ""
    /\ retorno = << >>
    /\ hiper = [ag \in Agentes |-> HiperCurto]
    /\ epsilon = [ag \in Agentes |-> EpsilonPadrao]
    /\ tabelaQ = [ag \in Agentes |-> TabelaVazia]
    /\ estatisticas = [ag \in Agentes |-> EstatisticasZeradas]
    /\ historicoPartida = [ag \in Agentes |-> << >>]
    /\ passos = 0
    /\ TreinadorNovo
    /\ testTreinador \in BOOLEAN
    /\ SemTreino
    /\ SemAvaliacao

NextTreino ==
    \/ treinarInicio
    \/ treinarPartidaInicio
    \/ treinarPartidaJogada
    \/ treinarPartidaFim
    \/ treinarFim

SpecTreino == InitTreino /\ [][NextTreino]_vars

\* alpha = 1.0: every update replaces the old value by its target
HiperFirme == [HiperCurto EXCEPT !.alpha = Um]

\* treinar on two new agents built with the same alpha and gamma: 0.5 and
\* 1.0, 1.0 and 1.0, or 0.5 and 0.9
InitTreinoVariado ==
    /\ dimensao = DimensaoPadrao
    /\ combinacoesDeVitoria = GerarCombinacoesDeVitoria(DimensaoPadrao)
    /\ tabuleiro = TabuleiroVazio(DimensaoPadrao)
    /\ \E k \in Sorteios : jogadorAtual = SortearJogador(k)
    /\ partidaFinalizada = FALSE
    /\ vencedor = NULO
    /\ pcConstrutor = "construido"
    /\ indice = 0
    /\ chamada = SemChamada
    /\ erro = ""
    /\ retorno = << >>
    /\ \E h \in {HiperCurto, HiperFirme, HiperDeTeste} :
          hiper = [ag \in Agentes |-> h]
    /\ epsilon = [ag \in Agentes |-> EpsilonPadrao]
    /\ tabelaQ = [ag \in Agentes |-> TabelaVazia]
    /\ estatisticas = [ag \in Agentes |-> EstatisticasZeradas]
    /\ historicoPartida = [ag \in Agentes |-> << >>]
    /\ passos = 0
    /\ TreinadorNovo
    /\ testTreinador \in BOOLEAN
    /\ SemTreino
    /\ SemAvaliacao

SpecTreinoVariado == InitTreinoVariado /\ [][NextTreino]_vars

-----------------------------------------------------------------------------
(* Treinador: avaliarAgentes *)

\* Bound: the matches one avaliarAgentes call plays
MaxPartidasAvaliadas == 2

\* superagente_final_${dimensao}x${dimensao}.json
NomeDoSuperagente(dim) ==
    "superagente_final_" \o ToString(dim) \o "x" \o ToString(dim) \o ".json"

ChamadaDeAvaliar == [op |-> "avaliarAgentes", acao |-> NULO]

\* Object.keys(tabelaQ).length === 0
SemEstados(q) == DOMAIN q = {}

\* the draws of Math.random() the agents make during the matches of
\* avaliarAgentes: the lowest one; the starter of each match is drawn from
\* all of Sorteios
SorteiosDaAvaliacao == {0}

\* avaliarAgentes up to its loop: an agent whose table has no state is
\* replaced by AgenteQLearning.carregar of its file, agenteX first; an error
\* of carregar ends avaliarAgentes
avaliarInicio ==
    /\ pcAvaliacao = "ocioso"
    /\ pcTreino = "ocioso"
    /\ pcTreinador = "ocioso"
    /\ LET carregaX == SemEstados(tabelaQ["X"])
           cX == Carregar(arquivos, NomeDoSuperagente(dimensao))
           falhaX == carregaX /\ cX.erro # ""
           carregaO == ~falhaX /\ SemEstados(tabelaQ["O"])
           cO == Carregar(arquivos, NomeDoModeloFinal("o", dimensao))
           falhaO == carregaO /\ cO.erro # ""
           novo == [X |-> carregaX /\ ~falhaX, O |-> carregaO /\ ~falhaO]
           carga == [X |-> cX.tabela, O |-> cO.tabela]
       IN  /\ tabelaQ' = [ag \in Agentes |->
                             IF novo[ag] THEN carga[ag] ELSE tabelaQ[ag]]
           /\ hiper' = [ag \in Agentes |-> IF novo[ag] THEN HiperPadrao ELSE hiper[ag]]
           /\ epsilon' = [ag \in Agentes |->
                             IF novo[ag] THEN EpsilonPadrao ELSE epsilon[ag]]
           /\ estatisticas' = [ag \in Agentes |->
                                  IF novo[ag] THEN EstatisticasZeradas
                                  ELSE estatisticas[ag]]
           /\ historicoPartida' = [ag \in Agentes |->
                                      IF novo[ag] THEN << >> ELSE historicoPartida[ag]]
           /\ erro' = IF falhaX THEN cX.erro ELSE IF falhaO THEN cO.erro ELSE ""
           /\ pcAvaliacao' = IF falhaX \/ falhaO THEN "ocioso" ELSE "laco"
           /\ \E n \in 0 .. MaxPartidasAvaliadas :
                avaliacao' = [numeroDePartidas |-> n, i |-> 0, vitoriasX |-> 0,
                              vitoriasO |-> 0, empates |-> 0,
                              tabelasAntes |-> tabelaQ']
    /\ chamada' = ChamadaDeAvaliar
    /\ retorno' = << >>
    /\ UNCHANGED <<varsAmbiente, passos, varsTreinador, varsTreino, varsDisco>>

\* the loop test and this.ambiente.reiniciarPartida()
avaliarPartidaInicio ==
    /\ pcAvaliacao = "laco"
    /\ avaliacao.i < avaliacao.numeroDePartidas
    /\ tabuleiro' = TabuleiroVazio(dimensao)
    /\ \E k \in Sorteios : jogadorAtual' = SortearJogador(k)
    /\ partidaFinalizada' = FALSE
    /\ vencedor' = NULO
    /\ pcAvaliacao' = "partida"
    /\ chamada' = ChamadaDeAvaliar
    /\ erro' = ""
    /\ retorno' = << >>
    /\ UNCHANGED <<dimensao, combinacoesDeVitoria, pcConstrutor, indice, varsAgente,
                   varsTreinador, varsTreino, avaliacao, varsDisco>>

\* one iteration of while (!this.ambiente.partidaFinalizada): escolherAcao
\* with em_treinamento = false, executarJogada; an error of either call ends
\* avaliarAgentes
avaliarJogada ==
    /\ pcAvaliacao = "partida"
    /\ ~partidaFinalizada
    /\ LET ag == AgenteDaVez(jogadorAtual)
           estado == ObterEstadoComoTupla(tabuleiro)
           acoes == [definida |-> TRUE, itens |-> ObterAcoesValidas(tabuleiro)]
       IN  \E e \in {EscolherAcao(tabelaQ[ag], epsilon[ag], estado, acoes,
                                  FALSE, k1, k2) : k1, k2 \in SorteiosDaAvaliacao} :
             /\ tabelaQ' = [tabelaQ EXCEPT ![ag] = e.tabela]
             /\ IF e.erro # ""
                  THEN /\ erro' = e.erro
                       /\ pcAvaliacao' = "ocioso"
                       /\ UNCHANGED <<tabuleiro, jogadorAtual, partidaFinalizada, vencedor>>
                ELSE IF JogadaRejeitada(tabuleiro, partidaFinalizada, e.acao)
                  THEN /\ erro' = "InvalidAction"
                       /\ pcAvaliacao' = "ocioso"
                       /\ UNCHANGED <<tabuleiro, jogadorAtual, partidaFinalizada, vencedor>>
                ELSE LET t == [tabuleiro EXCEPT ![e.acao] = jogadorAtual]
                         d == Desfecho(t, combinacoesDeVitoria, jogadorAtual)
                     IN  /\ erro' = ""
                         /\ pcAvaliacao' = "partida"
                         /\ tabuleiro' = t
                         /\ partidaFinalizada' = d.finalizada
                         /\ vencedor' = d.vencedor
                         /\ jogadorAtual' = TrocarJogador(jogadorAtual)
    /\ chamada' = ChamadaDeAvaliar
    /\ retorno' = << >>
    /\ UNCHANGED <<dimensao, combinacoesDeVitoria, pcConstrutor, indice, hiper,
                   epsilon, estatisticas, historicoPartida, passos,
                   varsTreinador, varsTreino, avaliacao, varsDisco>>

\* after the while: the counters of the evaluation, i++
avaliarPartidaFim ==
    /\ pcAvaliacao = "partida"
    /\ partidaFinalizada
    /\ avaliacao' = [avaliacao EXCEPT
                        !.i = avaliacao.i + 1,
                        !.vitoriasX = avaliacao.vitoriasX + (IF vencedor = 1 THEN 1 ELSE 0),
                        !.vitoriasO = avaliacao.vitoriasO + (IF vencedor = 2 THEN 1 ELSE 0),
                        !.empates = avaliacao.empates
                                       + (IF vencedor \notin {1, 2} THEN 1 ELSE 0)]
    /\ pcAvaliacao' = "laco"
    /\ chamada' = ChamadaDeAvaliar
    /\ erro' = ""
    /\ retorno' = << >>
    /\ UNCHANGED <<varsAmbiente, varsAgente, varsTreinador, varsTreino, varsDisco>>

\* after the loop: the report, return
avaliarFim ==
    /\ pcAvaliacao = "laco"
    /\ ~(avaliacao.i < avaliacao.numeroDePartidas)
    /\ pcAvaliacao' = "ocioso"
    /\ chamada' = ChamadaDeAvaliar
    /\ erro' = ""
    /\ retorno' = << >>
    /\ UNCHANGED <<varsAmbiente, varsAgente, varsTreinador, varsTreino, avaliacao,
                   varsDisco>>

\* what a file of the models directory may hold when avaliarAgentes is
\* called: the table a salvarMemoria wrote, or a text that is not JSON
ConteudosDeArquivo == {JsonDaTabela(TabelaCarregada), TextoInvalido}

\* the models directory: each of the two files avaliarAgentes loads is
\* missing or holds one of the contents
DiscosDeAvaliacao ==
    LET nomes == {NomeDoSuperagente(DimensaoPadrao), NomeDoModeloFinal("o", DimensaoPadrao)}
    IN  UNION {[presentes -> ConteudosDeArquivo] : presentes \in SUBSET nomes}

\* a Treinador on a 3x3 board whose agents each have an empty table or the
\* loaded one, over each models directory
InitAvaliacao ==
    /\ dimensao = DimensaoPadrao
    /\ combinacoesDeVitoria = GerarCombinacoesDeVitoria(DimensaoPadrao)
    /\ tabuleiro = TabuleiroVazio(DimensaoPadrao)
    /\ jogadorAtual = 1
    /\ partidaFinalizada = FALSE
    /\ vencedor = NULO
    /\ pcConstrutor = "construido"
    /\ indice = 0
    /\ chamada = SemChamada
    /\ erro = ""
    /\ retorno = << >>
    /\ hiper = [ag \in Agentes |-> HiperCurto]
    /\ epsilon = [ag \in Agentes |-> EpsilonPadrao]
    /\ tabelaQ \in [Agentes -> {TabelaVazia, TabelaCarregada}]
    /\ estatisticas = [ag \in Agentes |-> EstatisticasZeradas]
    /\ historicoPartida = [ag \in Agentes |-> << >>]
    /\ passos = 0
    /\ TreinadorNovo
    /\ testTreinador = FALSE
    /\ checkpoints = << >>
    /\ pcTreino = "ocioso"
    /\ treino = [numeroDePartidas |-> 0, intervaloLog |-> 1,
                 intervaloCheckpoint |-> 1, partidaAtual |-> 0,
                 vitoriasXJanela |-> 0, vitoriasOJanela |-> 0,
                 empatesJanela |-> 0, partidasAntes |-> [ag \in Agentes |-> 0]]
    /\ arquivos \in DiscosDeAvaliacao
    /\ escritasDeCheckpoint = << >>
    /\ SemAvaliacao

NextAvaliacao ==
    \/ avaliarInicio
    \/ avaliarPartidaInicio
    \/ avaliarJogada
    \/ avaliarPartidaFim
    \/ avaliarFim

SpecAvaliacao == InitAvaliacao /\ [][NextAvaliacao]_vars

-----------------------------------------------------------------------------
(* mesclarModelos.js: mesclarTabelasQ; Treinador.mesclarAgentesTrainados *)

\* objeto.q_table || objeto.tabelaQ || objeto
Desembrulhar(objeto) ==
    IF "q_table" \in DOMAIN objeto THEN objeto["q_table"]
    ELSE IF "tabelaQ" \in DOMAIN objeto THEN objeto["tabelaQ"]
    ELSE objeto

\* fs.readFileSync and JSON.parse of one input: the table, or the error
\* thrown
LerTabela(disco, nome) ==
    IF nome \notin DOMAIN disco
      THEN [erro |-> "ENOENT", objeto |-> << >>]
    ELSE IF ~disco[nome].valido
      THEN [erro |-> "SyntaxError", objeto |-> << >>]
    ELSE [erro |-> "", objeto |-> Desembrulhar(disco[nome].objeto)]

\* a slip that keeps the value of the first table whenever both have the pair
MesclarMantendoX(tabelaQX, tabelaQO) ==
    [e \in DOMAIN tabelaQX \cup DOMAIN tabelaQO |->
        IF e \notin DOMAIN tabelaQX THEN tabelaQO[e]
        ELSE IF e \notin DOMAIN tabelaQO THEN tabelaQX[e]
        ELSE [a \in DOMAIN tabelaQX[e] \cup DOMAIN tabelaQO[e] |->
                 IF a \notin DOMAIN tabelaQX[e] THEN tabelaQO[e][a]
                 ELSE tabelaQX[e][a]]]

\* a slip that takes the value of the second table whenever both have the
\* pair
MesclarPreferindoO(tabelaQX, tabelaQO) ==
    [e \in DOMAIN tabelaQX \cup DOMAIN tabelaQO |->
        IF e \notin DOMAIN tabelaQX THEN tabelaQO[e]
        ELSE IF e \notin DOMAIN tabelaQO THEN tabelaQX[e]
        ELSE [a \in DOMAIN tabelaQX[e] \cup DOMAIN tabelaQO[e] |->
                 IF a \notin DOMAIN tabelaQO[e] THEN tabelaQX[e][a]
                 ELSE tabelaQO[e][a]]]

\* the merge loop over the parsed objects: a copy of tabelaQX, to which each
\* state of tabelaQO is added whole when new and action by action otherwise,
\* an action both have keeping tabelaQO's value only when it is greater
MesclarObjetos(tabelaQX, tabelaQO) ==
    [e \in DOMAIN tabelaQX \cup DOMAIN tabelaQO |->
        IF e \notin DOMAIN tabelaQX THEN tabelaQO[e]
        ELSE IF e \notin DOMAIN tabelaQO THEN tabelaQX[e]
        ELSE [a \in DOMAIN tabelaQX[e] \cup DOMAIN tabelaQO[e] |->
                 IF a \notin DOMAIN tabelaQX[e] THEN tabelaQO[e][a]
                 ELSE IF a \notin DOMAIN tabelaQO[e] THEN tabelaQX[e][a]
                 ELSE IF Maior(tabelaQO[e][a], tabelaQX[e][a]) THEN tabelaQO[e][a]
                 ELSE tabelaQX[e][a]]]

\* a slip that lets the error of reading an input leave mesclarTabelasQ
MesclarTabelasQSemCaptura(disco, caminhoAgenteX, caminhoAgenteO, caminhoSaida, falha) ==
    LET x == LerTabela(disco, caminhoAgenteX)
        o == LerTabela(disco, caminhoAgenteO)
    IN  IF x.erro # "" THEN [arquivos |-> disco, relato |-> "", erro |-> x.erro]
        ELSE IF o.erro # "" THEN [arquivos |-> disco, relato |-> "", erro |-> o.erro]
        ELSE IF falha THEN [arquivos |-> disco, relato |-> "", erro |-> "EscritaFalhou"]
        ELSE [arquivos |-> Escrever(disco, caminhoSaida,
                                    [valido |-> TRUE,
                                     objeto |-> MesclarObjetos(x.objeto, o.objeto)]),
              relato |-> "salvo", erro |-> ""]

\* mesclarTabelasQ: [arquivos, relato, erro]; an input that is missing or
\* is not JSON is reported and nothing is written; falha is whether the write
\* of the result throws
MesclarTabelasQ(disco, caminhoAgenteX, caminhoAgenteO, caminhoSaida, falha) ==
    LET x == LerTabela(disco, caminhoAgenteX)
        o == LerTabela(disco, caminhoAgenteO)
        relatoDe(e) == IF e = "ENOENT" THEN "ArquivoNaoEncontrado"
                       ELSE "FormatoInesperado"
    IN  IF x.erro # "" THEN [arquivos |-> disco, relato |-> relatoDe(x.erro), erro |-> ""]
        ELSE IF o.erro # "" THEN [arquivos |-> disco, relato |-> relatoDe(o.erro), erro |-> ""]
        ELSE IF falha THEN [arquivos |-> disco, relato |-> "", erro |-> "EscritaFalhou"]
        ELSE [arquivos |-> Escrever(disco, caminhoSaida,
                                    [valido |-> TRUE,
                                     objeto |-> MesclarObjetos(x.objeto, o.objeto)]),
              relato |-> "salvo", erro |-> ""]

ChamadaDeMesclar == [op |-> "mesclarTabelasQ", acao |-> NULO]
ChamadaDeMesclarAgentes == [op |-> "mesclarAgentesTrainados", acao |-> NULO]

\* mesclarTabelasQ(caminhoX, caminhoO, caminhoFinal) as the script calls it
mesclarTabelasQ ==
    /\ pcTreino = "ocioso"
    /\ pcAvaliacao = "ocioso"
    /\ \E falha \in BOOLEAN :
         LET r == MesclarTabelasQ(arquivos, NomeDoModeloFinal("x", DimensaoPadrao),
                                  NomeDoModeloFinal("o", DimensaoPadrao),
                                  NomeDoSuperagente(DimensaoPadrao), falha)
         IN  /\ arquivos' = r.arquivos
             /\ erro' = r.erro
             /\ retorno' = [relato |-> r.relato]
    /\ chamada' = ChamadaDeMesclar
    /\ UNCHANGED <<varsAmbiente, varsAgente, varsTreinador, varsTreino,
                   varsAvaliacao, escritasDeCheckpoint>>

\* mesclarAgentesTrainados: runs the script in a child process inside
\* try/catch; an error of the script is reported, never thrown
mesclarAgentesTrainados ==
    /\ pcTreino = "ocioso"
    /\ pcAvaliacao = "ocioso"
    /\ \E falha \in BOOLEAN :
         LET r == MesclarTabelasQ(arquivos, NomeDoModeloFinal("x", DimensaoPadrao),
                                  NomeDoModeloFinal("o", DimensaoPadrao),
                                  NomeDoSuperagente(DimensaoPadrao), falha)
         IN  /\ arquivos' = r.arquivos
             /\ retorno' = [relato |-> IF r.erro # "" THEN "ErroAoExecutarMesclagem"
                                       ELSE r.relato]
    /\ erro' = ""
    /\ chamada' = ChamadaDeMesclarAgentes
    /\ UNCHANGED <<varsAmbiente, varsAgente, varsTreinador, varsTreino,
                   varsAvaliacao, escritasDeCheckpoint>>

\* the values the tables of the inputs hold
ValoresDeEntrada == {<<1, 2>>, <<-1, 4>>}

\* every table over the states EstadoVazio and EstadoCentro and the actions
\* of AcoesDoAgente with values of ValoresDeEntrada: a state is absent or
\* has any of its actions, each with any value
MapasDeAcoes ==
    UNION {[acoes -> ValoresDeEntrada] : acoes \in SUBSET AcoesDoAgente}
TabelasDeEntrada ==
    UNION {[estados -> MapasDeAcoes] : estados \in SUBSET EstadosDeEntrada}

\* the two input files: each missing, not JSON, an older save with the
\* table nested under a field, or the saved table of an agent
DiscosDeMescla ==
    LET nomes == {NomeDoModeloFinal("x", DimensaoPadrao),
                  NomeDoModeloFinal("o", DimensaoPadrao)}
        conteudos == {TextoInvalido, JsonEmbrulhado("q_table", TabelaCarregada),
                      JsonEmbrulhado("tabelaQ", TabelaCarregada)}
                         \cup {JsonDaTabela(q) : q \in TabelasDeEntrada}
    IN  UNION {[presentes -> conteudos] : presentes \in SUBSET nomes}

InitMescla ==
    /\ dimensao = DimensaoPadrao
    /\ combinacoesDeVitoria = GerarCombinacoesDeVitoria(DimensaoPadrao)
    /\ tabuleiro = TabuleiroVazio(DimensaoPadrao)
    /\ jogadorAtual = 1
    /\ partidaFinalizada = FALSE
    /\ vencedor = NULO
    /\ pcConstrutor = "construido"
    /\ indice = 0
    /\ chamada = SemChamada
    /\ erro = ""
    /\ retorno = << >>
    /\ AgentesNovos
    /\ TreinadorNovo
    /\ testTreinador = FALSE
    /\ checkpoints = << >>
    /\ pcTreino = "ocioso"
    /\ treino = [numeroDePartidas |-> 0, intervaloLog |-> 1,
                 intervaloCheckpoint |-> 1, partidaAtual |-> 0,
                 vitoriasXJanela |-> 0, vitoriasOJanela |-> 0,
                 empatesJanela |-> 0, partidasAntes |-> [ag \in Agentes |-> 0]]
    /\ arquivos \in DiscosDeMescla
    /\ escritasDeCheckpoint = << >>
    /\ SemAvaliacao

NextMescla ==
    \/ mesclarTabelasQ
    \/ mesclarAgentesTrainados

SpecMescla == InitMescla /\ [][NextMescla]_vars

-----------------------------------------------------------------------------
(* AgenteQLearning: salvarMemoria, carregar *)

\* the path the table is saved to and loaded from
CaminhoDaMemoria == NomeDoModeloFinal("x", DimensaoPadrao)

ChamadaDeSalvar == [op |-> "salvarMemoria", acao |-> NULO]
ChamadaDeCarregar == [op |-> "carregar", acao |-> NULO]

\* salvarMemoria(caminho) of the agent: writes JSON.stringify(this.tabelaQ),
\* or throws "Erro ao salvar memória" when the write throws
SalvarMemoriaDe(ag) ==
    /\ \E falha \in BOOLEAN :
         IF falha
           THEN /\ erro' = "ErroAoSalvarMemoria"
                /\ UNCHANGED arquivos
           ELSE /\ erro' = ""
                /\ arquivos' = Escrever(arquivos, CaminhoDaMemoria,
                                        JsonDaTabela(tabelaQ[ag]))
    /\ chamada' = ChamadaDeSalvar
    /\ retorno' = << >>
    /\ UNCHANGED <<hiper, epsilon, tabelaQ, estatisticas, historicoPartida,
                   escritasDeCheckpoint>>

\* agenteX.salvarMemoria(caminho)
salvarMemoria ==
    /\ SalvarMemoriaDe("X")
    /\ UNCHANGED <<varsAmbiente, passos, varsTreinador, varsTreino, varsAvaliacao>>

\* salvarMemoria among the operations a caller makes on one agent
AgSalvarMemoria ==
    /\ passos < MaxPassos
    /\ passos' = passos + 1
    /\ SalvarMemoriaDe("X")
    /\ UNCHANGED <<varsAmbiente, varsTreinador, varsTreino, varsAvaliacao>>

\* one agent driven by any caller, salvarMemoria included
NextOperacoes ==
    \/ NextAgente
    \/ AgSalvarMemoria

SpecOperacoes == InitAgente /\ [][NextOperacoes]_vars

\* agenteO = AgenteQLearning.carregar(caminho, { jogador: 2 }): a new agent
\* with the table of the file, or with an empty one when there is no file;
\* the error of JSON.parse leaves carregar
carregar ==
    /\ LET c == Carregar(arquivos, CaminhoDaMemoria)
       IN  IF c.erro # ""
             THEN /\ erro' = c.erro
                  /\ UNCHANGED <<hiper, epsilon, tabelaQ, estatisticas, historicoPartida>>
             ELSE /\ erro' = ""
                  /\ tabelaQ' = [tabelaQ EXCEPT !["O"] = c.tabela]
                  /\ hiper' = [hiper EXCEPT !["O"] = HiperPadrao]
                  /\ epsilon' = [epsilon EXCEPT !["O"] = EpsilonPadrao]
                  /\ estatisticas' = [estatisticas EXCEPT !["O"] = EstatisticasZeradas]
                  /\ historicoPartida' = [historicoPartida EXCEPT !["O"] = << >>]
    /\ chamada' = ChamadaDeCarregar
    /\ retorno' = << >>
    /\ UNCHANGED <<varsAmbiente, passos, varsTreinador, varsTreino, varsAvaliacao,
                   varsDisco>>

\* a lookup on the loaded agent
consultarCarregado ==
    /\ \E e \in EstadosDeEntrada, a \in AcoesDoAgente : obterValorQ("O", e, a)
    /\ UNCHANGED <<varsAmbiente, passos, varsTreinador, varsTreino, varsAvaliacao,
                   varsDisco>>

\* what the file may hold before any salvarMemoria: a text that is not JSON
\* or an older save with the table under q_table or under tabelaQ
ConteudosAntigos ==
    {TextoInvalido, JsonEmbrulhado("q_table", TabelaCarregada),
     JsonEmbrulhado("tabelaQ", TabelaCarregada)}

\* agenteX with any of the input tables or the loaded one of the tests,
\* agenteO new; the file is missing or holds one of the older contents
InitMemoria ==
    /\ dimensao = DimensaoPadrao
    /\ combinacoesDeVitoria = GerarCombinacoesDeVitoria(DimensaoPadrao)
    /\ tabuleiro = TabuleiroVazio(DimensaoPadrao)
    /\ jogadorAtual = 1
    /\ partidaFinalizada = FALSE
    /\ vencedor = NULO
    /\ pcConstrutor = "construido"
    /\ indice = 0
    /\ chamada = SemChamada
    /\ erro = ""
    /\ retorno = << >>
    /\ hiper = [ag \in Agentes |-> HiperPadrao]
    /\ epsilon = [ag \in Agentes |-> EpsilonPadrao]
    /\ tabelaQ \in {[ag \in Agentes |-> IF ag = "X" THEN q ELSE TabelaVazia] :
                      q \in TabelasDeEntrada \cup {TabelaCarregada}}
    /\ estatisticas = [ag \in Agentes |-> EstatisticasZeradas]
    /\ historicoPartida = [ag \in Agentes |-> << >>]
    /\ passos = 0
    /\ TreinadorNovo
    /\ testTreinador = FALSE
    /\ checkpoints = << >>
    /\ pcTreino = "ocioso"
    /\ treino = [numeroDePartidas |-> 0, intervaloLog |-> 1,
                 intervaloCheckpoint |-> 1, partidaAtual |-> 0,
                 vitoriasXJanela |-> 0, vitoriasOJanela |-> 0,
                 empatesJanela |-> 0, partidasAntes |-> [ag \in Agentes |-> 0]]
    /\ arquivos \in {DiscoVazio} \cup
                    {Escrever(DiscoVazio, CaminhoDaMemoria, c) : c \in ConteudosAntigos}
    /\ escritasDeCheckpoint = << >>
    /\ SemAvaliacao

NextMemoria ==
    \/ salvarMemoria
    \/ carregar
    \/ consultarCarregado

SpecMemoria == InitMemoria /\ [][NextMemoria]_vars

-----------------------------------------------------------------------------
(* One agent through the matches of a caller: iniciarNovaPartida,
   registrarJogada, aprenderComFimDePartida *)

\* Bound: the registrarJogada calls of one behaviour, counted in passos
MaxJogadas == 3

\* Bound: the aprenderComFimDePartida calls of one behaviour
MaxAprendizados == 2

EpIniciarNovaPartida ==
    /\ iniciarNovaPartida("X")
    /\ UNCHANGED <<varsAmbiente, passos, varsTreinador, varsTreino, varsAvaliacao,
                   varsDisco>>

EpRegistrarJogada ==
    /\ passos < MaxJogadas
    /\ passos' = passos + 1
    /\ \E e \in EstadosDeEntrada, a \in AcoesDoAgente : registrarJogada("X", e, a)
    /\ UNCHANGED <<varsAmbiente, varsTreinador, varsTreino, varsAvaliacao, varsDisco>>

EpAprenderComFimDePartida ==
    /\ estatisticas["X"].partidasTreinadas < MaxAprendizados
    /\ \E r \in RecompensasFinais : aprenderComFimDePartida("X", r)
    /\ UNCHANGED <<varsAmbiente, passos, varsTreinador, varsTreino, varsAvaliacao,
                   varsDisco>>

\* a new agent with the hyperparameters of the update test, with an empty
\* table or the loaded one
InitEpisodio ==
    /\ hiper = [ag \in Agentes |-> IF ag = "X" THEN HiperDeTeste ELSE HiperPadrao]
    /\ epsilon = [ag \in Agentes |-> EpsilonPadrao]
    /\ tabelaQ \in {[ag \in Agentes |-> IF ag = "X" THEN q ELSE TabelaVazia] :
                     q \in {TabelaVazia, TabelaCarregada}}
    /\ estatisticas = [ag \in Agentes |-> EstatisticasZeradas]
    /\ historicoPartida = [ag \in Agentes |-> << >>]
    /\ passos = 0
    /\ TreinadorNovo
    /\ testTreinador = FALSE
    /\ SemTreino
    /\ SemAvaliacao
    /\ dimensao = DimensaoPadrao
    /\ combinacoesDeVitoria = GerarCombinacoesDeVitoria(DimensaoPadrao)
    /\ tabuleiro = TabuleiroVazio(DimensaoPadrao)
    /\ jogadorAtual = 1
    /\ partidaFinalizada = FALSE
    /\ vencedor = NULO
    /\ pcConstrutor = "construido"
    /\ indice = 0
    /\ chamada = SemChamada
    /\ erro = ""
    /\ retorno = << >>

NextEpisodio ==
    \/ EpIniciarNovaPartida
    \/ EpRegistrarJogada
    \/ EpAprenderComFimDePartida

SpecEpisodio == InitEpisodio /\ [][NextEpisodio]_vars

-----------------------------------------------------------------------------
(* Properties of the environment *)

\* the cells of the current board, and what they hold
Casas == DOMAIN tabuleiro
CasasVazias == {c \in Casas : tabuleiro[c] = 0}
TemCombinacaoCompleta(t, jogador) ==
    \E k \in 1 .. Len(combinacoesDeVitoria) :
        {t[c] : c \in Range(combinacoesDeVitoria[k])} = {jogador}

\* C1: executarJogada raises InvalidAction whenever the target cell is
\* occupied (whatever the state of the game: in progress, won or drawn) and
\* whenever the game has already finished, even if the target cell is empty.
C1_JogadaInvalidaSempreFalha ==
    [][ (/\ chamada'.op = "executarJogada"
         /\ \/ ValorDaCasa(tabuleiro, chamada'.acao) \in {1, 2}
            \/ partidaFinalizada)
        => erro' = "InvalidAction" ]_vars

\* C1 witness: a move on an empty cell of a won game was rejected.
C1_Witness ==
    /\ chamada.op = "executarJogada"
    /\ erro = "InvalidAction"
    /\ partidaFinalizada
    /\ vencedor \in {1, 2}
    /\ ValorDaCasa(tabuleiro, chamada.acao) = 0

\* C2: after a successful executarJogada by player p the outcome is decided
\* in this order: p holds a full win-combination => reward 1, finished,
\* winner p (also when the move filled the last empty cell); otherwise no
\* empty cell => reward 0, finished, winner 0, and 0 is neither a player nor
\* the 'no result yet' value; otherwise reward 0, not finished, winner still
\* 'no result yet'.
C2_OrdemDoDesfecho ==
    [][ (chamada'.op = "executarJogada" /\ erro' = "")
        => LET p == jogadorAtual
               t == tabuleiro'
           IN  /\ t = [tabuleiro EXCEPT ![chamada'.acao] = p]
               /\ retorno'.finalizada = partidaFinalizada'
               /\ IF TemCombinacaoCompleta(t, p)
                    THEN /\ retorno'.recompensa = Um
                         /\ partidaFinalizada' = TRUE
                         /\ vencedor' = p
                  ELSE IF \A c \in DOMAIN t : t[c] # 0
                    THEN /\ retorno'.recompensa = Zero
                         /\ partidaFinalizada' = TRUE
                         /\ vencedor' = 0
                         /\ vencedor' \notin {1, 2, NULO}
                  ELSE   /\ retorno'.recompensa = Zero
                         /\ partidaFinalizada' = FALSE
                         /\ vencedor' = NULO ]_vars

\* C2 witness: the move that filled the last empty cell completed a
\* win-combination and the game was won, not drawn.
C2_Witness ==
    /\ chamada.op = "executarJogada"
    /\ erro = ""
    /\ CasasVazias = {}
    /\ vencedor \in {1, 2}
    /\ retorno.recompensa = Um

EhCrescente(s) == \A i, j \in DOMAIN s : i < j => s[i] < s[j]

\* C4: in every reachable state, finished ones included, obterAcoesValidas
\* returns exactly the indices of the empty cells in ascending order and
\* raises nothing; on an empty 3x3 board after playing cell 4 it returns
\* 0,1,2,3,5,6,7,8.
C4_AcoesValidasSaoAsVazias ==
    pcConstrutor = "construido" =>
        /\ LET r == ObterAcoesValidas(tabuleiro)
           IN  /\ EhCrescente(r)
               /\ Range(r) = CasasVazias
        /\ chamada.op = "obterAcoesValidas"
             => /\ erro = ""
                /\ EhCrescente(retorno)
                /\ Range(retorno) = CasasVazias
                /\ (/\ dimensao = 3
                    /\ CasasVazias = Casas \ {4})
                       => retorno = <<0, 1, 2, 3, 5, 6, 7, 8>>

\* C4 witness: obterAcoesValidas was called on the 3x3 board whose only mark
\* is on cell 4.
C4_Witness ==
    /\ chamada.op = "obterAcoesValidas"
    /\ dimensao = 3
    /\ CasasVazias = Casas \ {4}
    /\ retorno = <<0, 1, 2, 3, 5, 6, 7, 8>>

\* the lines of an n x n board, stated by row and column
LinhaDoTabuleiro(n, r)  == {r * n + c : c \in 0 .. (n - 1)}
ColunaDoTabuleiro(n, c) == {r * n + c : r \in 0 .. (n - 1)}
DiagonalDescendente(n)  == {k * n + k : k \in 0 .. (n - 1)}
DiagonalAscendente(n)   == {k * n + (n - 1 - k) : k \in 0 .. (n - 1)}
LinhasDeVitoria(n) ==
    {LinhaDoTabuleiro(n, r) : r \in 0 .. (n - 1)}
        \cup {ColunaDoTabuleiro(n, c) : c \in 0 .. (n - 1)}
        \cup {DiagonalDescendente(n), DiagonalAscendente(n)}

\* C5: for every N in 3..9 the constructed win-combination set has exactly
\* 2N + 2 combinations, each of exactly N distinct indices of 0..N*N-1, and
\* holds each row, each column, the main diagonal and the anti-diagonal
\* exactly once.
C5_CombinacoesDeVitoria ==
    pcConstrutor = "construido" =>
        LET n == dimensao
            cs == combinacoesDeVitoria
        IN  /\ n \in 3 .. 9
            /\ Len(cs) = 2 * n + 2
            /\ \A k \in 1 .. Len(cs) :
                   /\ Len(cs[k]) = n
                   /\ Cardinality(Range(cs[k])) = n
                   /\ Range(cs[k]) \subseteq 0 .. (n * n - 1)
            /\ \A l \in LinhasDeVitoria(n) :
                   Cardinality({k \in 1 .. Len(cs) : Range(cs[k]) = l}) = 1
            /\ Cardinality(LinhasDeVitoria(n)) = 2 * n + 2

\* C5 witness: the largest board, 9 x 9, has been constructed.
C5_Witness ==
    /\ pcConstrutor = "construido"
    /\ dimensao = 9
    /\ Len(combinacoesDeVitoria) = 20

-----------------------------------------------------------------------------
(* Properties of the agent *)

\* what a table q records: the value of (estado, acao), 0.0 when it has none,
\* and the values of all the actions of a state
ValorRegistrado(q, estado, acao) ==
    IF estado \in DOMAIN q /\ acao \in DOMAIN q[estado] THEN q[estado][acao]
    ELSE Zero
ValoresRegistrados(q, estado) ==
    IF estado \in DOMAIN q THEN Range(q[estado]) ELSE {}
MaiorDe(valores) ==
    IF valores = {} THEN Zero
    ELSE CHOOSE x \in valores : \A y \in valores : ~Menor(x, y)

\* C6: a non-terminal update (aprender with finalizado = false) writes
\* new = old + alpha * (reward + gamma * best(next) - old), where old is the
\* value of (state, action), 0.0 if it had none, and best(next) is the
\* largest value recorded for the next state once the read of old has
\* recorded it, 0.0 if the next state has none; with alpha = 0.5, gamma = 0.9,
\* old = 0.0, best(next) = 0.8 and reward = 0.0 the stored value is 0.36.
C6_AtualizacaoNaoTerminal ==
    [][ (chamada'.op = "aprender" /\ ~chamada'.finalizado)
        => LET c == chamada'
               h == hiper[c.agente]
               q == tabelaQ[c.agente]
               antigo == ValorRegistrado(q, c.estado, c.acao)
               registrados ==
                   ValoresRegistrados(q, c.proximoEstado)
                       \cup (IF c.proximoEstado = c.estado THEN {antigo} ELSE {})
               melhor == MaiorDe(registrados)
               alvo == Soma(c.recompensa, Vezes(h.gamma, melhor))
               novo == tabelaQ'[c.agente][c.estado][c.acao]
           IN  /\ novo = Soma(antigo, Vezes(h.alpha, Menos(alvo, antigo)))
               /\ (/\ h.alpha = <<1, 2>> /\ h.gamma = <<9, 10>>
                   /\ antigo = Zero /\ melhor = <<4, 5>>
                   /\ c.recompensa = Zero) => novo = <<9, 25>> ]_vars

\* C6 witness: the update of the test: on the loaded table, with alpha = 0.5
\* and gamma = 0.9, the unseen action 1 of the empty board with reward 0 and
\* the next state whose best value is 0.8 has been given the value 0.36.
C6_Witness ==
    /\ passos = 1
    /\ chamada.op = "aprender"
    /\ ~chamada.finalizado
    /\ chamada.estado = EstadoVazio /\ chamada.acao = 1
    /\ chamada.proximoEstado = EstadoCentro
    /\ chamada.recompensa = Zero
    /\ hiper["X"].alpha = <<1, 2>> /\ hiper["X"].gamma = <<9, 10>>
    /\ MaiorDe(ValoresRegistrados(tabelaQ["X"], EstadoCentro)) = <<4, 5>>
    /\ tabelaQ["X"][EstadoVazio] = (1 :> <<9, 25>>) @@ TabelaCarregada[EstadoVazio]

\* C7: an update with finalizado = true adds no future-value term: the new
\* value is old + alpha * (reward - old) whatever the next state is, also
\* when the next state is the state itself and has non-zero recorded values.
C7_AtualizacaoTerminal ==
    [][ (chamada'.op = "aprender" /\ chamada'.finalizado)
        => LET c == chamada'
               h == hiper[c.agente]
               antigo == ValorRegistrado(tabelaQ[c.agente], c.estado, c.acao)
           IN  tabelaQ'[c.agente][c.estado][c.acao]
                   = Soma(antigo, Vezes(h.alpha, Menos(c.recompensa, antigo))) ]_vars

\* C7 witness: a terminal update of action 1 of a state whose best recorded
\* value was 0.8, with the state itself as next state and reward 1, has
\* stored 0.8 + 0.5 * (1 - 0.8) = 0.9.
C7_Witness ==
    /\ passos = 1
    /\ chamada.op = "aprender"
    /\ chamada.finalizado
    /\ chamada.estado = EstadoCentro /\ chamada.proximoEstado = EstadoCentro
    /\ chamada.acao = 1
    /\ chamada.recompensa = Um
    /\ tabelaQ["X"][EstadoCentro] = (1 :> <<9, 10>>) @@ TabelaCarregada[EstadoCentro]

\* C8: escolherAcao with emTreinamento = false (for any epsilon), and with
\* emTreinamento = true and epsilon = 0, on a non-empty list returns without
\* error an element of the list whose value for the state (0.0 when not yet
\* recorded) is maximal among the list; when one action of the list has a
\* strictly greater value than every other, exactly that action is returned.
C8_EscolhaGulosa ==
    [][ (/\ chamada'.op = "escolherAcao"
         /\ chamada'.acoesValidas.definida
         /\ Len(chamada'.acoesValidas.itens) > 0
         /\ (~chamada'.emTreinamento \/ epsilon[chamada'.agente] = Zero))
        => LET c == chamada'
               validas == Range(c.acoesValidas.itens)
               valor(a) == ValorRegistrado(tabelaQ[c.agente], c.estado, a)
           IN  /\ erro' = ""
               /\ retorno' \in validas
               /\ \A b \in validas : ~Menor(valor(retorno'), valor(b))
               /\ \A a \in validas :
                     (\A b \in validas \ {a} : Maior(valor(a), valor(b)))
                         => retorno' = a ]_vars

\* C8 witness: with emTreinamento = true and epsilon = 0 the agent was given
\* the actions 0 and 1 of a state where 1 (0.8) is worth more than 0 (0.5),
\* and has returned 1.
C8_Witness ==
    /\ passos = 1
    /\ chamada.op = "escolherAcao"
    /\ chamada.emTreinamento
    /\ epsilon["X"] = Zero
    /\ chamada.estado = EstadoCentro
    /\ chamada.acoesValidas = [definida |-> TRUE, itens |-> <<0, 1>>]
    /\ tabelaQ["X"] = TabelaCarregada
    /\ erro = ""
    /\ retorno = 1

\* C9: escolherAcao fails with NoValidActions whenever the list of valid
\* actions is empty or absent, for every state, every epsilon and both values
\* of emTreinamento; nothing is returned and the table is left as it was.
C9_SemAcoesValidas ==
    [][ (/\ chamada'.op = "escolherAcao"
         /\ \/ ~chamada'.acoesValidas.definida
            \/ Len(chamada'.acoesValidas.itens) = 0)
        => /\ erro' = "NoValidActions"
           /\ retorno' = NULO
           /\ tabelaQ' = tabelaQ ]_vars

\* C9 witness: a greedy call (emTreinamento = false) with an empty list on
\* an agent that holds a loaded table has failed with NoValidActions.
C9_Witness ==
    /\ chamada.op = "escolherAcao"
    /\ chamada.acoesValidas = [definida |-> TRUE, itens |-> << >>]
    /\ ~chamada.emTreinamento
    /\ tabelaQ["X"] = TabelaCarregada
    /\ erro = "NoValidActions"

-----------------------------------------------------------------------------
(* Properties of the trainer *)

\* the reward with which aprenderComFimDePartida was called on agent ag
RecompensaAprendida(ag) ==
    (CHOOSE a \in Range(aprendizados) : a.agente = ag).recompensa

\* C10: every executarUmaPartida ends with exactly one call of
\* aprenderComFimDePartida on each of the two agents, and none before the
\* end; the rewards are +1.0 for the agent whose player won and -1.0 for the
\* other, or 0.0 for both on a draw, and they always sum to zero.
C10_AprendizadoDeSomaZero ==
    /\ pcTreinador = "laco"
         => /\ aprendizados = << >>
            /\ \A ag \in Agentes :
                  estatisticas[ag].partidasTreinadas = partidasExecutadas
    /\ (pcTreinador = "ocioso" /\ partidasExecutadas > 0)
         => /\ Len(aprendizados) = 2
            /\ \A ag \in Agentes :
                  /\ Cardinality({i \in DOMAIN aprendizados :
                                     aprendizados[i].agente = ag}) = 1
                  /\ estatisticas[ag].partidasTreinadas = partidasExecutadas
            /\ vencedor \in {0, 1, 2}
            /\ vencedor = 1 => /\ RecompensaAprendida("X") = Um
                               /\ RecompensaAprendida("O") = <<-1, 1>>
            /\ vencedor = 2 => /\ RecompensaAprendida("X") = <<-1, 1>>
                               /\ RecompensaAprendida("O") = Um
            /\ vencedor = 0 => /\ RecompensaAprendida("X") = Zero
                               /\ RecompensaAprendida("O") = Zero
            /\ Soma(RecompensaAprendida("X"), RecompensaAprendida("O")) = Zero
            /\ estatisticas["X"].vitorias = estatisticas["O"].derrotas
            /\ estatisticas["X"].derrotas = estatisticas["O"].vitorias
            /\ estatisticas["X"].empates = estatisticas["O"].empates

\* C10 witness: a match that player 2 won has ended: agenteX has learned
\* from -1.0 and counts a defeat, agenteO from +1.0 and counts a victory.
C10_Witness ==
    /\ pcTreinador = "ocioso"
    /\ partidasExecutadas = 1
    /\ vencedor = 2
    /\ aprendizados = <<[agente |-> "X", recompensa |-> <<-1, 1>>],
                        [agente |-> "O", recompensa |-> Um]>>
    /\ estatisticas["X"].derrotas = 1
    /\ estatisticas["O"].vitorias = 1


-----------------------------------------------------------------------------
(* Properties of treinar *)

\* treinar has ended, by a return or by an error
TreinarEncerrado == pcTreino = "ocioso" /\ chamada = ChamadaDeTreinar

\* C11: when treinar(n, ...) ends, partidasTreinadas of each agent is n more
\* than when it was called; called with n >= 1 on agents that had trained no
\* match, it leaves both counters at n and neither table empty
C11_PartidasTreinadas ==
    TreinarEncerrado =>
        /\ \A ag \in Agentes :
              estatisticas[ag].partidasTreinadas
                  = treino.partidasAntes[ag] + treino.numeroDePartidas
        /\ (treino.numeroDePartidas >= 1
            /\ \A ag \in Agentes : treino.partidasAntes[ag] = 0)
           => \A ag \in Agentes :
                 /\ estatisticas[ag].partidasTreinadas = treino.numeroDePartidas
                 /\ tabelaQ[ag] # TabelaVazia

C11_Witness ==
    /\ TreinarEncerrado
    /\ treino.numeroDePartidas = 1
    /\ \A ag \in Agentes : treino.partidasAntes[ag] = 1
    /\ \A ag \in Agentes : estatisticas[ag].partidasTreinadas = 2


\* the step of treinar that ends a match with a checkpoint due, one of whose
\* two writes threw
CheckpointFalhou ==
    /\ pcTreino = "laco"
    /\ treino'.partidaAtual = treino.partidaAtual + 1
    /\ NoIntervalo(treino'.partidaAtual, treino.intervaloCheckpoint)
    /\ Len(escritasDeCheckpoint') < Len(escritasDeCheckpoint) + 2

\* C12: a checkpoint write that fails is recorded in #checkpoints as a
\* checkpoint without success, leaves treinar running with no error, and a
\* treinar that had a failed checkpoint ends with all its matches played
C12_CheckpointFalhoNaoAborta ==
    /\ [][CheckpointFalhou =>
            /\ checkpoints' = Append(checkpoints,
                                     [numeroPartida |-> treino'.partidaAtual,
                                      sucesso |-> FALSE])
            /\ erro' = ""
            /\ pcTreino' = "laco"]_vars
    /\ [](TreinarEncerrado
          /\ (\E i \in DOMAIN checkpoints : ~checkpoints[i].sucesso)
          => /\ treino.partidaAtual = treino.numeroDePartidas
             /\ \A ag \in Agentes :
                   estatisticas[ag].partidasTreinadas
                       = treino.partidasAntes[ag] + treino.numeroDePartidas)

C12_Witness ==
    /\ TreinarEncerrado
    /\ erro = ""
    /\ treino.numeroDePartidas = 2
    /\ treino.partidaAtual = 2
    /\ checkpoints = <<[numeroPartida |-> 1, sucesso |-> FALSE],
                       [numeroPartida |-> 2, sucesso |-> TRUE]>>


\* the final models of a 3x3 Treinador are on disk and hold the tables the
\* agents have now
ModelosFinaisSalvos ==
    /\ "agente_x_final_3x3.json" \in DOMAIN arquivos
    /\ "agente_o_final_3x3.json" \in DOMAIN arquivos
    /\ arquivos["agente_x_final_3x3.json"] = JsonDaTabela(tabelaQ["X"])
    /\ arquivos["agente_o_final_3x3.json"] = JsonDaTabela(tabelaQ["O"])

\* C13: when treinar of a Treinador constructed with test_treinador = false
\* returns, the final table of each agent is in its own file, named with the
\* dimension of the board; a Treinador constructed with test_treinador = true
\* never writes a final model
C13_ModelosFinais ==
    /\ (TreinarEncerrado /\ erro = "" /\ ~testTreinador) => ModelosFinaisSalvos
    /\ testTreinador =>
          /\ "agente_x_final_3x3.json" \notin DOMAIN arquivos
          /\ "agente_o_final_3x3.json" \notin DOMAIN arquivos

C13_Witness ==
    /\ TreinarEncerrado
    /\ erro = ""
    /\ ~testTreinador
    /\ treino.numeroDePartidas = 2
    /\ ModelosFinaisSalvos

\* C13 as stated: when treinar returns, whatever the Treinador was
\* constructed with, the final table of each agent is in its file
C13_ComoEscrita ==
    (TreinarEncerrado /\ erro = "") => ModelosFinaisSalvos


\* C14: no checkpoint file is written twice: the names of the files the
\* checkpoints have written, over all treinar calls of the Treinador, are
\* pairwise different
C14_CheckpointsNaoSobrescritos ==
    \A i, j \in DOMAIN escritasDeCheckpoint :
        i # j => escritasDeCheckpoint[i] # escritasDeCheckpoint[j]


-----------------------------------------------------------------------------
(* Properties of avaliarAgentes *)

\* avaliarAgentes has ended, by a return or by an error
AvaliacaoEncerrada == pcAvaliacao = "ocioso" /\ chamada = ChamadaDeAvaliar

\* C15: when avaliarAgentes ends, the table of each agent has the entries
\* and the values it had when the matches of the evaluation began
C15_AvaliacaoNaoAlteraTabelas ==
    AvaliacaoEncerrada => \A ag \in Agentes : tabelaQ[ag] = avaliacao.tabelasAntes[ag]


\* the file avaliarAgentes loads for the agent is missing or is not JSON
SemModeloNoDisco(ag) ==
    LET nome == IF ag = "X" THEN "superagente_final_3x3.json"
                ELSE "agente_o_final_3x3.json"
    IN  nome \notin DOMAIN arquivos \/ ~arquivos[nome].valido

\* C16: an avaliarAgentes that found an agent with an empty table and no
\* model to load for it ends without an error, with all its matches played
C16_AvaliacaoSemModelo ==
    (/\ AvaliacaoEncerrada
     /\ \E ag \in Agentes :
           SemEstados(avaliacao.tabelasAntes[ag]) /\ SemModeloNoDisco(ag))
    => /\ erro = ""
       /\ avaliacao.i = avaliacao.numeroDePartidas


-----------------------------------------------------------------------------
(* Properties of the merge *)

\* the (state, action) pairs a table has
ParesDe(q) == UNION {{<<e, a>> : a \in DOMAIN q[e]} : e \in DOMAIN q}

\* the table a file of the models directory holds
TabelaNoArquivo(nome) == TabelaDoJson(Desembrulhar(arquivos[nome].objeto))

\* the merge has just written its result
MesclagemSalva ==
    /\ chamada \in {ChamadaDeMesclar, ChamadaDeMesclarAgentes}
    /\ erro = ""
    /\ retorno.relato = "salvo"

\* C17: the merged table has exactly the pairs of the first table or of the
\* second; a pair of only one table has that table's value, a pair of both
\* the greater of the two values
C17_MesclagemUniaoComMaximo ==
    MesclagemSalva =>
        LET A == TabelaNoArquivo("agente_x_final_3x3.json")
            B == TabelaNoArquivo("agente_o_final_3x3.json")
            M == TabelaNoArquivo("superagente_final_3x3.json")
        IN  /\ ParesDe(M) = ParesDe(A) \cup ParesDe(B)
            /\ DOMAIN M = DOMAIN A \cup DOMAIN B
            /\ \A par \in ParesDe(M) :
                  LET e == par[1]
                      a == par[2]
                  IN  IF par \notin ParesDe(B) THEN M[e][a] = A[e][a]
                      ELSE IF par \notin ParesDe(A) THEN M[e][a] = B[e][a]
                      ELSE /\ M[e][a] \in {A[e][a], B[e][a]}
                           /\ ~Menor(M[e][a], A[e][a])
                           /\ ~Menor(M[e][a], B[e][a])

C17_Witness ==
    /\ MesclagemSalva
    /\ LET A == TabelaNoArquivo("agente_x_final_3x3.json")
           B == TabelaNoArquivo("agente_o_final_3x3.json")
           M == TabelaNoArquivo("superagente_final_3x3.json")
       IN  /\ <<EstadoVazio, 0>> \in ParesDe(A) \ ParesDe(B)
           /\ <<EstadoCentro, 0>> \in ParesDe(B) \ ParesDe(A)
           /\ <<EstadoCentro, 1>> \in ParesDe(A) \cap ParesDe(B)
           /\ A[EstadoCentro][1] = <<-1, 4>>
           /\ B[EstadoCentro][1] = <<1, 2>>
           /\ M[EstadoCentro][1] = <<1, 2>>
           /\ <<EstadoVazio, 1>> \in ParesDe(A) \cap ParesDe(B)
           /\ A[EstadoVazio][1] = <<1, 2>>
           /\ B[EstadoVazio][1] = <<-1, 4>>
           /\ M[EstadoVazio][1] = <<1, 2>>

\* C18: the merged table is the one the merge gives with the two inputs in
\* the other order: the same pairs, the same value at every pair
C18_OrdemDasEntradas ==
    MesclagemSalva =>
        LET objetoX == Desembrulhar(arquivos["agente_x_final_3x3.json"].objeto)
            objetoO == Desembrulhar(arquivos["agente_o_final_3x3.json"].objeto)
            M == TabelaNoArquivo("superagente_final_3x3.json")
            N == TabelaDoJson(MesclarObjetos(objetoO, objetoX))
        IN  /\ ParesDe(M) = ParesDe(N)
            /\ \A par \in ParesDe(M) : M[par[1]][par[2]] = N[par[1]][par[2]]

C18_Witness ==
    /\ MesclagemSalva
    /\ LET A == TabelaNoArquivo("agente_x_final_3x3.json")
           B == TabelaNoArquivo("agente_o_final_3x3.json")
           M == TabelaNoArquivo("superagente_final_3x3.json")
       IN  /\ <<EstadoCentro, 0>> \in ParesDe(A) \cap ParesDe(B)
           /\ A[EstadoCentro][0] = <<1, 2>>
           /\ B[EstadoCentro][0] = <<-1, 4>>
           /\ M[EstadoCentro][0] = <<1, 2>>
           /\ <<EstadoVazio, 0>> \in ParesDe(B) \ ParesDe(A)

\* the merge found an input missing or not JSON
EntradaSemTabela ==
    \E nome \in {"agente_x_final_3x3.json", "agente_o_final_3x3.json"} :
        nome \notin DOMAIN arquivos \/ ~arquivos[nome].valido

\* C19: a merge whose input file is missing or is not JSON reports it and
\* returns without an error, and writes no result
C19_MesclagemFalhaSemErro ==
    (chamada \in {ChamadaDeMesclar, ChamadaDeMesclarAgentes} /\ EntradaSemTabela)
    => /\ erro = ""
       /\ retorno.relato \in {"ArquivoNaoEncontrado", "FormatoInesperado"}
       /\ "superagente_final_3x3.json" \notin DOMAIN arquivos

C19_Witness ==
    /\ chamada = ChamadaDeMesclar
    /\ "agente_x_final_3x3.json" \in DOMAIN arquivos
    /\ arquivos["agente_x_final_3x3.json"].valido
    /\ "agente_o_final_3x3.json" \in DOMAIN arquivos
    /\ ~arquivos["agente_o_final_3x3.json"].valido
    /\ erro = ""
    /\ retorno.relato = "FormatoInesperado"


-----------------------------------------------------------------------------
(* Properties of salvarMemoria and carregar *)

\* carregar has just returned the agent of a file salvarMemoria wrote
CarregadoDoSalvo ==
    /\ chamada.op = "carregar"
    /\ erro = ""
    /\ "agente_x_final_3x3.json" \in DOMAIN arquivos
    /\ arquivos["agente_x_final_3x3.json"].valido
    /\ \A campo \in {"q_table", "tabelaQ"} :
          campo \notin DOMAIN arquivos["agente_x_final_3x3.json"].objeto

C21_CarregarSemArquivo ==
    chamada.op = "carregar" =>
        /\ "agente_x_final_3x3.json" \notin DOMAIN arquivos
           => (erro = "" /\ tabelaQ["O"] = TabelaVazia)
        /\ ("agente_x_final_3x3.json" \in DOMAIN arquivos
            /\ ~arquivos["agente_x_final_3x3.json"].valido)
           => erro = "SyntaxError"

C21_Witness ==
    /\ chamada.op = "carregar"
    /\ "agente_x_final_3x3.json" \notin DOMAIN arquivos
    /\ erro = ""
    /\ tabelaQ["X"] = TabelaCarregada
    /\ tabelaQ["O"] = TabelaVazia

\* the file holds an older save, the table nested under a field
ArquivoEmbrulhado ==
    /\ "agente_x_final_3x3.json" \in DOMAIN arquivos
    /\ arquivos["agente_x_final_3x3.json"].valido
    /\ \E campo \in {"q_table", "tabelaQ"} :
          campo \in DOMAIN arquivos["agente_x_final_3x3.json"].objeto

\* C22: the agent carregar returns for a file that nests the table under
\* q_table or tabelaQ has the nested table as its table: the states of the
\* nested table, each with its actions and values
C22_CarregarEmbrulhado ==
    (chamada.op = "carregar" /\ erro = "" /\ ArquivoEmbrulhado) =>
        /\ DOMAIN tabelaQ["O"] = DOMAIN TabelaNoArquivo("agente_x_final_3x3.json")
        /\ tabelaQ["O"] = TabelaNoArquivo("agente_x_final_3x3.json")


-----------------------------------------------------------------------------
(* Properties of the agent through a match *)

\* gamma^k
RECURSIVE Potencia(_, _)
Potencia(x, k) == IF k = 0 THEN Um ELSE Vezes(x, Potencia(x, k - 1))

\* no (state, action) pair is twice in the trajectory
SemParRepetido(historico) ==
    \A i, j \in DOMAIN historico : i # j => historico[i] # historico[j]

\* C23: aprenderComFimDePartida(r) on a trajectory of distinct pairs moves
\* the value of the entry k moves before the last one from old to
\* old + alpha * (r * gamma^k - old), one terminal update each, and leaves
\* every other value as it was
C23_CreditoParaTras ==
    [][(chamada'.op = "aprenderComFimDePartida" /\ SemParRepetido(historicoPartida["X"]))
       => LET h == historicoPartida["X"]
              n == Len(h)
              r == chamada'.recompensa
          IN  /\ \A i \in 1 .. n :
                    LET velho == ValorRegistrado(tabelaQ["X"], h[i][1], h[i][2])
                        alvo == Vezes(r, Potencia(hiper["X"].gamma, n - i))
                    IN  ValorRegistrado(tabelaQ'["X"], h[i][1], h[i][2])
                            = Soma(velho, Vezes(hiper["X"].alpha, Menos(alvo, velho)))
              /\ \A par \in ParesDe(tabelaQ["X"]) \ Range(h) :
                    tabelaQ'["X"][par[1]][par[2]] = tabelaQ["X"][par[1]][par[2]]
              /\ ParesDe(tabelaQ'["X"]) = ParesDe(tabelaQ["X"]) \cup Range(h)]_vars

\* three moves, r = +1.0, gamma = 0.9, alpha = 0.5 on an empty table: the
\* entries are halfway to 1.0, 0.9 and 0.81
C23_Witness ==
    /\ chamada.op = "aprenderComFimDePartida"
    /\ chamada.recompensa = Um
    /\ hiper["X"] = HiperDeTeste
    /\ estatisticas["X"].partidasTreinadas = 1
    /\ historicoPartida["X"] = <<<<EstadoVazio, 0>>, <<EstadoVazio, 1>>, <<EstadoCentro, 0>>>>
    /\ tabelaQ["X"][EstadoCentro][0] = <<1, 2>>
    /\ tabelaQ["X"][EstadoVazio][1] = <<9, 20>>
    /\ tabelaQ["X"][EstadoVazio][0] = <<81, 200>>
    /\ ParesDe(tabelaQ["X"]) = {<<EstadoVazio, 0>>, <<EstadoVazio, 1>>, <<EstadoCentro, 0>>}


-----------------------------------------------------------------------------
(* Properties of the agent's operations *)

\* C24: obterValorQ(estado, acao) returns the stored value of a pair the
\* table has and leaves the table as it was; for a pair the table lacks it
\* returns 0.0 and adds the pair with 0.0, changing no other pair
C24_ValorComCriacao ==
    [][chamada'.op = "obterValorQ"
       => LET q == tabelaQ["X"]
              par == <<chamada'.estado, chamada'.acao>>
          IN  IF par \in ParesDe(q)
                THEN /\ retorno' = q[par[1]][par[2]]
                     /\ tabelaQ' = tabelaQ
                ELSE /\ retorno' = Zero
                     /\ ParesDe(tabelaQ'["X"]) = ParesDe(q) \cup {par}
                     /\ tabelaQ'["X"][par[1]][par[2]] = Zero
                     /\ \A p \in ParesDe(q) :
                           tabelaQ'["X"][p[1]][p[2]] = q[p[1]][p[2]]]_vars

C24_Witness ==
    /\ chamada.op = "obterValorQ"
    /\ chamada.estado = EstadoCentro
    /\ chamada.acao = 1
    /\ retorno = Zero
    /\ tabelaQ["X"] = (EstadoCentro :> (1 :> Zero))


\* C25: no operation of the agent removes a (state, action) pair from its
\* table: over every step the pairs, and the states, of the table only grow
C25_TabelaSoCresce ==
    [][\A ag \in Agentes :
          /\ ParesDe(tabelaQ[ag]) \subseteq ParesDe(tabelaQ'[ag])
          /\ DOMAIN tabelaQ[ag] \subseteq DOMAIN tabelaQ'[ag]]_vars

C25_Witness ==
    /\ chamada.op = "aprenderComFimDePartida"
    /\ passos = 2
    /\ ParesDe(TabelaCarregada) \subseteq ParesDe(tabelaQ["X"])
    /\ <<EstadoVazio, 0>> \in ParesDe(tabelaQ["X"])


-----------------------------------------------------------------------------
(* Properties of the turns *)

\* the cells of the board that hold the mark of the player
CasasDe(jogador) == {c \in DOMAIN tabuleiro : tabuleiro[c] = jogador}

\* C26: every executarJogada that succeeds, the one that ends the match
\* included, places the mark of the player whose turn it was and gives the
\* turn to the other player; between two marks of a match the turn does not
\* change, so two marks in a row are never of the same player; and the
\* numbers of marks of the two players never differ by more than one
C26_TurnosAlternados ==
    /\ [][(chamada'.op = "executarJogada" /\ erro' = "")
          => /\ tabuleiro' = [tabuleiro EXCEPT ![chamada'.acao] = jogadorAtual]
             /\ tabuleiro[chamada'.acao] = 0
             /\ jogadorAtual' \in {1, 2} \ {jogadorAtual}]_vars
    /\ [][(chamada'.op # "reiniciarPartida"
           /\ ~(chamada'.op = "executarJogada" /\ erro' = ""))
          => /\ jogadorAtual' = jogadorAtual
             /\ tabuleiro' = tabuleiro]_vars
    /\ [](/\ Cardinality(CasasDe(1)) - Cardinality(CasasDe(2)) \in {-1, 0, 1}
          /\ jogadorAtual \in {1, 2})

\* the match has just ended with the ninth mark, the turn passed on
C26_Witness ==
    /\ chamada.op = "executarJogada"
    /\ erro = ""
    /\ partidaFinalizada
    /\ vencedor = 1
    /\ Cardinality(CasasDe(1)) = 5
    /\ Cardinality(CasasDe(2)) = 4
    /\ jogadorAtual = 2


-----------------------------------------------------------------------------
(* Properties of the greedy choice *)

\* the actions of the list whose value for the state, 0.0 when not recorded,
\* no action of the list exceeds
AcoesEmpatadas(q, estado, itens) ==
    {a \in Range(itens) :
        \A b \in Range(itens) :
            ~Menor(ValorRegistrado(q, estado, a), ValorRegistrado(q, estado, b))}

\* the actions #escolherMelhorAcao returns over all the draws of Math.random
AcoesPossiveis(q, estado, itens) ==
    {EscolherMelhorAcao(q, estado, itens, k).acao : k \in Sorteios}

\* C27: on every table the agent comes to hold by reads and updates, for every state and every
\* non-empty list of actions, the actions the greedy choice can return over
\* the draws are exactly the actions of the list tied at the maximal value:
\* each of them can come out and no other action can
C27_DesempateSorteado ==
    \A ag \in DOMAIN tabelaQ, estado \in EstadosDeEntrada, lista \in ListasDeAcoes :
        (lista.definida /\ Len(lista.itens) > 0)
            => AcoesPossiveis(tabelaQ[ag], estado, lista.itens)
                   = AcoesEmpatadas(tabelaQ[ag], estado, lista.itens)

\* a greedy call on the actions 0 and 1 of a state where both are worth the
\* same has returned the second of them, the first being possible as well
C27_Witness ==
    /\ chamada.op = "escolherAcao"
    /\ ~chamada.emTreinamento
    /\ chamada.acoesValidas = [definida |-> TRUE, itens |-> <<0, 1>>]
    /\ erro = ""
    /\ retorno = 1
    /\ AcoesEmpatadas(tabelaQ["X"], chamada.estado, <<0, 1>>) = {0, 1}
    /\ AcoesPossiveis(tabelaQ["X"], chamada.estado, <<0, 1>>) = {0, 1}


-----------------------------------------------------------------------------
(* Properties of the counters and of epsilon *)

\* C28: every aprenderComFimDePartida adds one to partidasTreinadas and one
\* to exactly one of vitorias (reward > 0), derrotas (reward < 0) and empates
\* (reward = 0), leaving the other two; no operation of the agent lowers a
\* counter; and partidasTreinadas = vitorias + derrotas + empates in every
\* state
C28_ContadoresDePartidas ==
    /\ [][(chamada'.op = "aprenderComFimDePartida")
          => LET c == chamada'
                 e == estatisticas[c.agente]
                 e1 == estatisticas'[c.agente]
                 r == c.recompensa
                 um(b) == IF b THEN 1 ELSE 0
             IN  /\ e1.partidasTreinadas = e.partidasTreinadas + 1
                 /\ e1.vitorias = e.vitorias + um(Maior(r, Zero))
                 /\ e1.derrotas = e.derrotas + um(Menor(r, Zero))
                 /\ e1.empates = e.empates + um(r = Zero)
                 /\ \A outro \in DOMAIN estatisticas \ {c.agente} :
                        estatisticas'[outro] = estatisticas[outro]]_vars
    /\ [][\A ag \in DOMAIN estatisticas :
             /\ estatisticas'[ag].partidasTreinadas >= estatisticas[ag].partidasTreinadas
             /\ estatisticas'[ag].vitorias >= estatisticas[ag].vitorias
             /\ estatisticas'[ag].derrotas >= estatisticas[ag].derrotas
             /\ estatisticas'[ag].empates >= estatisticas[ag].empates]_vars
    /\ [](\A ag \in DOMAIN estatisticas :
             estatisticas[ag].partidasTreinadas
                 = estatisticas[ag].vitorias + estatisticas[ag].derrotas
                       + estatisticas[ag].empates)

\* after a match learnt as drawn, the second has been learnt as lost
C28_Witness ==
    /\ chamada.op = "aprenderComFimDePartida"
    /\ chamada.recompensa = <<-1, 1>>
    /\ estatisticas["X"] = [partidasTreinadas |-> 2, vitorias |-> 0,
                            derrotas |-> 1, empates |-> 1]


\* C29: every aprenderComFimDePartida, with an empty historicoPartida as
\* with a filled one, leaves epsilon = max(epsilonMinimo, epsilon *
\* taxaDecaimentoEpsilon), the decay applied once; every other operation of
\* the agent (obterValorQ, aprender, escolherAcao, iniciarNovaPartida,
\* registrarJogada, salvarMemoria) leaves epsilon as it was
C29_DecaimentoDeEpsilon ==
    /\ [][(chamada'.op = "aprenderComFimDePartida")
          => LET ag == chamada'.agente
                 h == hiper[ag]
                 decaido == Vezes(epsilon[ag], h.taxaDecaimentoEpsilon)
             IN  /\ epsilon'[ag] \in {h.epsilonMinimo, decaido}
                 /\ ~Menor(epsilon'[ag], h.epsilonMinimo)
                 /\ ~Menor(epsilon'[ag], decaido)
                 /\ \A outro \in DOMAIN epsilon \ {ag} :
                        epsilon'[outro] = epsilon[outro]]_vars
    /\ [][(chamada'.op # "aprenderComFimDePartida") => epsilon' = epsilon]_vars

\* two matches learnt with nothing recorded have halved epsilon = 0.5 twice
C29_Witness ==
    /\ chamada.op = "aprenderComFimDePartida"
    /\ historicoPartida["X"] = << >>
    /\ estatisticas["X"].partidasTreinadas = 2
    /\ hiper["X"].taxaDecaimentoEpsilon = <<1, 2>>
    /\ epsilon["X"] = <<1, 8>>

-----------------------------------------------------------------------------
(* Properties of the trajectory buffer *)

\* C30: historicoPartida is empty after iniciarNovaPartida and after
\* aprenderComFimDePartida, and an aprenderComFimDePartida that follows
\* another with no registrarJogada in between changes no value of the table
C30_HistoricoConsumido ==
    [][/\ chamada'.op \in {"iniciarNovaPartida", "aprenderComFimDePartida"}
          => historicoPartida'["X"] = << >>
       /\ (chamada.op = "aprenderComFimDePartida"
           /\ chamada'.op = "aprenderComFimDePartida")
          => tabelaQ' = tabelaQ]_vars


-----------------------------------------------------------------------------
(* Properties of a match of the trainer *)

\* C31: every executarUmaPartida that has reset the environment returns: the
\* match is finished at the latest when the dimensao * dimensao cells hold a
\* mark, one per executarJogada that succeeded, and the call then returns
\* this.ambiente.vencedor, which is 1, 2 or 0 (draw) and never null
C31_PartidaTermina ==
    /\ (pcTreinador = "laco")
           ~> (/\ pcTreinador = "ocioso"
               /\ partidasExecutadas > 0
               /\ retorno \in {0, 1, 2})
    /\ [](pcTreinador = "laco"
             => /\ Cardinality(CasasDe(1) \cup CasasDe(2)) <= dimensao * dimensao
                /\ Len(ObterAcoesValidas(tabuleiro)) = 0 => partidaFinalizada
                /\ partidaFinalizada => vencedor \in {0, 1, 2})
    /\ [][(pcTreinador = "laco" /\ pcTreinador' = "ocioso")
             => retorno' = vencedor /\ retorno' \in {0, 1, 2}]_vars

\* a match has returned 0 after nine marks
C31_Witness ==
    /\ pcTreinador = "ocioso"
    /\ partidasExecutadas = 1
    /\ retorno = 0
    /\ Cardinality(CasasDe(1) \cup CasasDe(2)) = 9


-----------------------------------------------------------------------------
(* Properties of the checkpoints of treinar *)

\* a match of treinar has just been played to its end
PartidaDoTreinoConcluida ==
    pcTreino = "laco" /\ treino'.partidaAtual = treino.partidaAtual + 1

\* C32: when the n-th match of a treinar(_, _, c) has been played, one record
\* with numeroPartida = n is added to #checkpoints if n is a multiple of c,
\* and nothing is recorded or written otherwise; a record says sucesso only
\* if this step wrote the file of agenteX and then the file of agenteO with
\* the tables of the agents; so while treinar runs the records are those of
\* c, 2c, 3c, ... up to the matches played
C32_CheckpointsNoIntervalo ==
    /\ [][PartidaDoTreinoConcluida
          => LET n == treino'.partidaAtual
                 c == treino.intervaloCheckpoint
                 cx == NomeDoCheckpoint("x", n)
                 co == NomeDoCheckpoint("o", n)
             IN  IF c > 0 /\ n % c = 0
                   THEN /\ Len(checkpoints') = Len(checkpoints) + 1
                        /\ SubSeq(checkpoints', 1, Len(checkpoints)) = checkpoints
                        /\ checkpoints'[Len(checkpoints')].numeroPartida = n
                        /\ checkpoints'[Len(checkpoints')].sucesso
                             => /\ escritasDeCheckpoint'
                                      = escritasDeCheckpoint \o <<cx, co>>
                                /\ arquivos'[cx] = JsonDaTabela(tabelaQ'["X"])
                                /\ arquivos'[co] = JsonDaTabela(tabelaQ'["O"])
                   ELSE /\ checkpoints' = checkpoints
                        /\ escritasDeCheckpoint' = escritasDeCheckpoint
                        /\ arquivos' = arquivos]_vars
    /\ [][~PartidaDoTreinoConcluida
          => \/ checkpoints' = checkpoints
             \/ pcTreino = "ocioso" /\ checkpoints' = << >>]_vars
    /\ [](pcTreino = "laco"
          => LET c == treino.intervaloCheckpoint
             IN  /\ Len(checkpoints) = treino.partidaAtual \div c
                 /\ \A i \in DOMAIN checkpoints :
                       checkpoints[i].numeroPartida = i * c)

\* a treinar with intervaloCheckpoint = 2 has played two matches and holds
\* the one checkpoint of match 2, saved
C32_Witness ==
    /\ pcTreino = "laco"
    /\ treino.intervaloCheckpoint = 2
    /\ treino.partidaAtual = 2
    /\ checkpoints = <<[numeroPartida |-> 2, sucesso |-> TRUE]>>
    /\ NomeDoCheckpoint("x", 2) \in DOMAIN arquivos
    /\ NomeDoCheckpoint("o", 2) \in DOMAIN arquivos


-----------------------------------------------------------------------------
(* Properties of the player who moves first *)

\* the 3x3 board after the moves seq, played in turn from an empty board
\* with primeiro moving first
RECURSIVE TabuleiroApos(_, _, _)
TabuleiroApos(seq, primeiro, i) ==
    IF i = 0 THEN TabuleiroVazio(DimensaoPadrao)
    ELSE [TabuleiroApos(seq, primeiro, i - 1) EXCEPT
             ![seq[i]] = IF i % 2 = 1 THEN primeiro ELSE 3 - primeiro]

LinhaDeCima == <<0, 4, 1, 5, 2>>
ColunaDoMeio == <<0, 4, 2, 1, 3, 7>>

-----------------------------------------------------------------------------
(* Properties of a rejected move *)

\* C34: an executarJogada that raises InvalidAction, as every call on an
\* occupied cell or on a finished game does, leaves the board, the player to
\* move, the finished flag and the winner as they were
C34_JogadaRejeitadaNadaMuda ==
    [][ (/\ chamada'.op = "executarJogada"
         /\ \/ erro' = "InvalidAction"
            \/ ValorDaCasa(tabuleiro, chamada'.acao) \in {1, 2}
            \/ partidaFinalizada)
        => /\ tabuleiro' = tabuleiro
           /\ jogadorAtual' = jogadorAtual
           /\ partidaFinalizada' = partidaFinalizada
           /\ vencedor' = vencedor ]_vars

\* a move on an occupied cell of a game in progress was rejected
C34_Witness ==
    /\ chamada.op = "executarJogada"
    /\ erro = "InvalidAction"
    /\ ~partidaFinalizada
    /\ vencedor = NULO
    /\ ValorDaCasa(tabuleiro, chamada.acao) \in {1, 2}
    /\ Cardinality(CasasDe(1) \cup CasasDe(2)) = 3


-----------------------------------------------------------------------------
(* Properties of the flags of the environment *)

\* C35: in every state of a constructed environment partidaFinalizada holds
\* exactly when vencedor is not null; a vencedor 1 or 2 holds a full
\* combination and the other player holds none; with vencedor 0 the board is
\* full and neither player holds a combination; and while the match is not
\* finished neither player holds a combination and some cell is empty
C35_EstadoCoerente ==
    pcConstrutor = "construido" =>
        /\ partidaFinalizada <=> vencedor # NULO
        /\ vencedor \in {NULO, 0, 1, 2}
        /\ \A p \in {1, 2} :
              vencedor = p => /\ TemCombinacaoCompleta(tabuleiro, p)
                              /\ ~TemCombinacaoCompleta(tabuleiro, 3 - p)
        /\ vencedor = 0 => /\ CasasVazias = {}
                           /\ \A p \in {1, 2} : ~TemCombinacaoCompleta(tabuleiro, p)
        /\ ~partidaFinalizada
              => /\ CasasVazias # {}
                 /\ \A p \in {1, 2} : ~TemCombinacaoCompleta(tabuleiro, p)

\* a match has been drawn: nine marks and no line
C35_Witness ==
    /\ chamada.op = "executarJogada"
    /\ erro = ""
    /\ partidaFinalizada
    /\ vencedor = 0
    /\ CasasVazias = {}
    /\ \A p \in {1, 2} : ~TemCombinacaoCompleta(tabuleiro, p)

-----------------------------------------------------------------------------
(* Properties of the moves of self-play *)

\* a match of executarUmaPartida, treinar or avaliarAgentes is in its loop
NaPartida ==
    /\ pcTreinador = "laco" \/ pcAvaliacao = "partida"
    /\ ~partidaFinalizada

\* C36: self-play never raises an error inside a match: in executarUmaPartida,
\* treinar and avaliarAgentes, while the match is not finished some cell is
\* empty, the list given to escolherAcao holds exactly the empty cells, and
\* whatever Math.random() draws escolherAcao returns without error an empty
\* cell of the current board; so neither NoValidActions nor InvalidAction is
\* ever raised and no match is abandoned
C36_SemErroNaPartida ==
    /\ pcTreinador # "falhou"
    /\ erro \notin {"NoValidActions", "InvalidAction"}
    /\ NaPartida =>
          LET ag == AgenteDaVez(jogadorAtual)
              itens == ObterAcoesValidas(tabuleiro)
          IN  /\ CasasVazias # {}
              /\ Range(itens) = CasasVazias
              /\ \A k1, k2 \in Sorteios :
                    LET e == EscolherAcao(tabelaQ[ag], epsilon[ag],
                                          ObterEstadoComoTupla(tabuleiro),
                                          [definida |-> TRUE, itens |-> itens],
                                          pcTreinador = "laco", k1, k2)
                    IN  /\ e.erro = ""
                        /\ e.acao \in CasasVazias

\* a match was played to the end of its loop, through a board with a single
\* empty cell, without an error
C36_Witness ==
    /\ pcTreinador = "laco" \/ pcAvaliacao = "partida"
    /\ partidaFinalizada
    /\ CasasVazias = {}
    /\ erro = ""

-----------------------------------------------------------------------------
(* Properties of the trajectories of self-play *)

\* the marks on the board, the player who made the first one (the players
\* alternate, so after an even number of marks it is the one to move), and
\* the i-th move of the match as the trajectories recorded it
MarcasNoTabuleiro == Cardinality({c \in Casas : tabuleiro[c] # 0})
PrimeiroDaPartida ==
    IF MarcasNoTabuleiro % 2 = 0 THEN jogadorAtual ELSE 3 - jogadorAtual
JogadorDaJogada(i) ==
    IF i % 2 = 1 THEN PrimeiroDaPartida ELSE 3 - PrimeiroDaPartida
HistoricoDoJogador(p) == historicoPartida[IF p = 1 THEN "X" ELSE "O"]
EntradaDaJogada(i) == HistoricoDoJogador(JogadorDaJogada(i))[(i + 1) \div 2]

\* C37: throughout the loop of executarUmaPartida, and so at its end, the
\* two trajectories hold one entry per mark on the board, the first mover's
\* the extra one when the marks are odd; replaying the entries in turn from
\* the empty board gives the current board, each entry holds the key of the
\* board just before its move and an action that was an empty cell of that
\* board and now holds the mark of the agent's own player; and no state key
\* occurs twice in one trajectory
C37_HistoricoRetrataAPartida ==
    pcTreinador = "laco" =>
        LET n == MarcasNoTabuleiro
            nX == Len(historicoPartida["X"])
            nO == Len(historicoPartida["O"])
        IN  /\ nX + nO = n
            /\ nX - nO \in {-1, 0, 1}
            /\ Len(HistoricoDoJogador(PrimeiroDaPartida)) = (n + 1) \div 2
            /\ Len(HistoricoDoJogador(3 - PrimeiroDaPartida)) = n \div 2
            /\ LET jogadas == [i \in 1 .. n |-> EntradaDaJogada(i)[2]]
               IN  /\ \A i \in 1 .. n :
                         LET antes == TabuleiroApos(jogadas, PrimeiroDaPartida, i - 1)
                         IN  /\ EntradaDaJogada(i)[1] = ObterEstadoComoTupla(antes)
                             /\ jogadas[i] \in DOMAIN antes
                             /\ antes[jogadas[i]] = 0
                             /\ tabuleiro[jogadas[i]] = JogadorDaJogada(i)
                   /\ TabuleiroApos(jogadas, PrimeiroDaPartida, n) = tabuleiro
            /\ \A ag \in Agentes :
                  \A i, j \in 1 .. Len(historicoPartida[ag]) :
                      i # j => historicoPartida[ag][i][1] # historicoPartida[ag][j][1]

\* the loop of a match has ended on a full board: five entries for the
\* agent who moved first and four for the other
C37_Witness ==
    /\ pcTreinador = "laco"
    /\ partidaFinalizada
    /\ MarcasNoTabuleiro = 9
    /\ Len(HistoricoDoJogador(PrimeiroDaPartida)) = 5
    /\ Len(HistoricoDoJogador(3 - PrimeiroDaPartida)) = 4
    /\ PrimeiroDaPartida = 2

-----------------------------------------------------------------------------
(* Properties of the statistics of self-play *)

\* C38: for two new agents that only one Treinador drives, between the
\* matches of executarUmaPartida and during their loops the statistics
\* mirror each other: the victories of agenteX are the defeats of agenteO,
\* the defeats of agenteX the victories of agenteO, the draws are equal, and
\* partidasTreinadas of both agents is the number of matches played
C38_EstatisticasEspelhadas ==
    /\ estatisticas["X"].vitorias = estatisticas["O"].derrotas
    /\ estatisticas["X"].derrotas = estatisticas["O"].vitorias
    /\ estatisticas["X"].empates = estatisticas["O"].empates
    /\ estatisticas["X"].partidasTreinadas = estatisticas["O"].partidasTreinadas
    /\ estatisticas["X"].partidasTreinadas = partidasExecutadas

\* two matches have been played, one won by each player
C38_Witness ==
    /\ pcTreinador = "ocioso"
    /\ partidasExecutadas = 2
    /\ estatisticas["X"].vitorias = 1
    /\ estatisticas["X"].derrotas = 1
    /\ estatisticas["O"].vitorias = 1
    /\ estatisticas["O"].derrotas = 1
    /\ estatisticas["O"].partidasTreinadas = 2

-----------------------------------------------------------------------------
(* Properties of the values of self-play *)

\* C39: for agents whose alpha and gamma lie in [0, 1] and whose tables
\* start empty, after any number of matches of self-play every value stored
\* in either table lies in the closed interval [-1, 1]
C39_ValoresEntreMenosUmEUm ==
    \A ag \in Agentes :
        \A par \in ParesDe(tabelaQ[ag]) :
            LET v == tabelaQ[ag][par[1]][par[2]]
            IN  /\ v[2] > 0
                /\ -v[2] <= v[1]
                /\ v[1] <= v[2]

\* two matches have been learned with alpha = 1.0: one table holds the value
\* 1.0 and the other the value -1.0, the ends of the interval
C39_Witness ==
    /\ pcTreinador = "ocioso"
    /\ partidasExecutadas = 2
    /\ hiper["X"].alpha = Um
    /\ \E ag \in Agentes :
          /\ \E par \in ParesDe(tabelaQ[ag]) : tabelaQ[ag][par[1]][par[2]] = Um
          /\ \E outro \in Agentes \ {ag} :
                \E par \in ParesDe(tabelaQ[outro]) :
                    tabelaQ[outro][par[1]][par[2]] = <<-1, 1>>

-----------------------------------------------------------------------------
(* Properties of the exploration rate over the matches *)

\* C40 as amended: for an agent whose decay factor lies in (0, 1] and whose
\* epsilon is not negative, an aprenderComFimDePartida that finds epsilon at
\* or above epsilonMinimo leaves it no greater than it was and not below
\* epsilonMinimo; one that finds epsilon below epsilonMinimo raises it to
\* epsilonMinimo
C40_EpsilonDecresceAteOPiso ==
    [][(chamada'.op = "aprenderComFimDePartida")
       => LET ag == chamada'.agente
              piso == hiper[ag].epsilonMinimo
          IN  /\ ~Menor(epsilon[ag], piso)
                    => /\ ~Maior(epsilon'[ag], epsilon[ag])
                       /\ ~Menor(epsilon'[ag], piso)
              /\ Menor(epsilon[ag], piso) => epsilon'[ag] = piso]_vars

\* two matches have been learned by an agent built with epsilon = 1.0 and
\* the decay factor 0.5: epsilon has come down to 0.25
C40_Witness ==
    /\ chamada.op = "aprenderComFimDePartida"
    /\ estatisticas["X"].partidasTreinadas = 2
    /\ hiper["X"].taxaDecaimentoEpsilon = <<1, 2>>
    /\ hiper["X"].epsilonMinimo = <<1, 10>>
    /\ epsilon["X"] = <<1, 4>>

\* C40 as written: whatever epsilon and epsilonMinimo the agent was built
\* with, epsilon after an aprenderComFimDePartida is less than or equal to
\* epsilon before it
C40_EpsilonNuncaAumenta ==
    [][(chamada'.op = "aprenderComFimDePartida")
       => ~Maior(epsilon'[chamada'.agente], epsilon[chamada'.agente])]_vars

=============================================================================
